---- MODULE Spec2Model ----
(***************************************************************************)
(* The capability-invocation engine of ai-chat-platform: Tool.run          *)
(* (app/agent/tool_base.py), the stateless ReactAgent.run                  *)
(* (app/agent/agent_core.py) and ConversationalAgent.run                   *)
(* (app/services/conversational_agent.py).                                 *)
(*                                                                         *)
(* Python values are modelled by TLA+ strings; None and the values that    *)
(* json.dumps cannot encode have their own constants.  The Chinese         *)
(* message texts of the source are written in English.                     *)
(***************************************************************************)
EXTENDS Integers, Sequences, FiniteSets, TLC

VARIABLES
    engine,            \* "react" (ReactAgent) or "conv" (ConversationalAgent)
    max_iterations,    \* config.max_iterations / self.max_iterations
    tools,             \* self.tools: name -> Tool
    pc,                \* position of run(): START, THINKING, LLM, ACTING, TOOL,
                       \* or a terminal state ANSWERED, MAX_ITER, ERROR
    iteration,         \* local `iteration`
    messages,          \* local `messages`
    steps,             \* self.steps (react) / local `steps` (conv)
    assistant_message, \* the assistant turn returned by the last gateway call
    idx,               \* position of the `for tool_call in tool_calls` loop
    result,            \* the dict run() returned
    llm_calls,         \* history: number of _call_llm calls started
    invoked,           \* history: the tool.run calls started, in order
    issued,            \* history: number of invocation requests the gateway issued
    responses,         \* history: what each _call_llm call gave, in order
    step_ids,          \* history: the id of the request each entry of steps records
    attempted,         \* history: the ids of the requests _execute_tool was called for
    budget,            \* the number of invocation requests the scripted gateway issues
    conversation_history, \* the caller's list passed to ConversationalAgent.run
    enable_rag,        \* argument enable_rag of ConversationalAgent.run
    kb_name,           \* argument kb_name of ConversationalAgent.run
    source_documents,  \* local `source_documents`
    rag_calls,         \* history: what each rag_service.rag_query call gave, and when
    functions,         \* local `functions`: the menu of function schemas
    menus,             \* history: the `functions` argument of each _call_llm call
    max_execution_time, \* config.max_execution_time of AgentConfig
    elapsed,           \* seconds since start_time = datetime.now()
    replay,            \* the gateway script and the outcome of an earlier run
    runs,              \* concurrent runs on one engine instance: the locals of each run()
    self_steps,        \* concurrent runs: the attribute self.steps of the ReactAgent
    registry_tools,    \* ToolRegistry._tools: name -> Tool instance
    registry_op,       \* history: the last call on the registry and how it ended
    email,             \* EmailSenderTool._execute: its locals and what it did so far
    session,           \* one session: its stored messages and the requests on it
    t_tool,            \* Tool.run on its own: the tool
    t_kwargs,          \* Tool.run on its own: the keyword arguments
    t_body,            \* Tool.run on its own: what _execute does when entered
    t_pc,              \* Tool.run on its own: CALL, VALIDATED, RETURNED
    t_called,          \* Tool.run on its own: number of calls of self._execute
    t_entered,         \* Tool.run on its own: number of times the body of _execute started
    t_fault,           \* Tool.run on its own: an exception was raised inside the try
    t_out              \* Tool.run on its own: what run gave its caller

vars == <<engine, max_iterations, tools, pc, iteration, messages, steps,
          assistant_message, idx, result, llm_calls, invoked, issued,
          responses, step_ids, attempted, budget, conversation_history,
          enable_rag, kb_name, source_documents, rag_calls, functions, menus,
          max_execution_time, elapsed, replay, runs, self_steps,
          registry_tools, registry_op, email, session,
          t_tool, t_kwargs, t_body, t_pc, t_called, t_entered, t_fault, t_out>>

engineVars == <<engine, max_iterations, tools, pc, iteration, messages, steps,
                assistant_message, idx, result, llm_calls, invoked, issued,
                responses, step_ids, attempted, budget, conversation_history,
                enable_rag, kb_name, source_documents, rag_calls, functions,
                menus, max_execution_time, elapsed, replay>>

\* The arguments of run() and the script of the gateway.
callVars == <<engine, max_iterations, tools, budget, conversation_history,
              enable_rag, kb_name, max_execution_time, replay>>

concVars == <<runs, self_steps>>

toolVars == <<t_tool, t_kwargs, t_body, t_pc, t_called, t_entered, t_fault, t_out,
              registry_tools, registry_op, email, session>>

\* Bounds of the model.
MaxIterBound == 2      \* largest configured max_iterations
MaxRequests == 3       \* invocation requests the gateway issues in one run
MaxConvRequests == 1   \* the same, in the runs with history and retrieval
MaxHistory == 2        \* longest conversation history of the caller
MaxFairRequests == 2   \* invocation requests of one run, in the runs checked for termination
NumRuns == 2           \* concurrent runs on one engine instance
MaxInstances == 2      \* Tool instances of one name offered to the registry
MaxAttempts == 3       \* largest max_attempts passed to EmailSenderTool._execute
NumQueries == 2        \* concurrent agent_conversation_query requests on one session

\* Python None, and a Python value json.dumps rejects (complex, function, set).
NoneVal == "<None>"
ComplexVal == "<complex 1j>"

EmptyMap == [k \in {} |-> NoneVal]

\* max_execution_time: int = 300 of AgentConfig.
DefaultMaxExecutionTime == 300

\* No earlier run, and no call on the registry yet.
NoReplay == [active |-> FALSE]
NoOp == [op |-> "none"]

\* EmailSenderTool._execute has not been called.
NoEmail == [pc |-> "IDLE"]

\* No session is being queried.
NoSession == [stored |-> <<>>, reqs |-> <<>>]

(***************************************************************************)
(* Tool (tool_base.py)                                                     *)
(***************************************************************************)

\* ToolOutput(success, result, error)
ToolOutput(success, res, error) ==
    [success |-> success, result |-> res, error |-> error]

\* What calling a function gives: a return value or a raised exception.
Returns(v) == [raised |-> FALSE, exc |-> "", value |-> v]
Raises(msg) == [raised |-> TRUE, exc |-> msg, value |-> NoneVal]

\* The first element of the list `required` that is not a key of params.
RECURSIVE FirstMissing(_, _)
FirstMissing(required, params) ==
    IF required = <<>> THEN ""
    ELSE IF Head(required) \notin DOMAIN params THEN Head(required)
    ELSE FirstMissing(Tail(required), params)

ValidateAlwaysPasses(tool, params) == Returns(NoneVal)

\* Tool._validate_parameters: raises ValueError for the first missing name.
ValidateParameters(tool, params) ==
    IF FirstMissing(tool.required, params) # ""
    THEN Raises("missing required parameter: " \o FirstMissing(tool.required, params))
    ELSE Returns(NoneVal)

\* `await self._execute(**kwargs)`: binding kwargs to the signature of
\* _execute raises TypeError for a name the signature does not have;
\* otherwise the body runs and does `body`.
ExecuteBinds(tool, kwargs) == DOMAIN kwargs \subseteq tool.accepts

CallExecute(tool, kwargs, body) ==
    IF ~ExecuteBinds(tool, kwargs)
    THEN Raises("_execute() got an unexpected keyword argument")
    ELSE body

ExceptReraise(tool, r) == r

\* The `except Exception as e` clause of Tool.run, for a raised outcome r.
ExceptHandler(tool, r) ==
    Returns(ToolOutput(FALSE, NoneVal, tool.name \o " failed: " \o r.exc))

\* Tool.run: validation and _execute inside try/except Exception.
Run(tool, kwargs, body) ==
    IF ValidateParameters(tool, kwargs).raised
    THEN ExceptHandler(tool, ValidateParameters(tool, kwargs))
    ELSE IF CallExecute(tool, kwargs, body).raised
    THEN ExceptHandler(tool, CallExecute(tool, kwargs, body))
    ELSE CallExecute(tool, kwargs, body)

\* CalculatorTool (basic_tools.py): schema and the body of _execute.
CalculatorTool ==
    [name |-> "calculator", required |-> <<"expression">>, accepts |-> {"expression"}]

\* eval(expression, ...) on the expressions of the model.
CalculatorExecute(kwargs) ==
    CASE "expression" \notin DOMAIN kwargs ->
            Raises("_execute() missing 1 required positional argument")
      [] kwargs["expression"] = "21*2" -> Returns(ToolOutput(TRUE, "42", NoneVal))
      [] kwargs["expression"] = "1j"   -> Returns(ToolOutput(TRUE, ComplexVal, NoneVal))
      [] OTHER -> Returns(ToolOutput(FALSE, NoneVal, "calculation error: division by zero"))

\* The dict comprehension {tool.name: tool for tool in tools}: a later tool
\* of the list replaces an earlier one of the same name.
ToolsDict(ts) ==
    [n \in {ts[i].name : i \in DOMAIN ts} |->
        ts[CHOOSE i \in DOMAIN ts :
              /\ ts[i].name = n
              /\ \A j \in DOMAIN ts : ts[j].name = n => j <= i]]

\* A capability of the caller that is itself named finish.
FinishTool ==
    [name |-> "finish", required |-> <<"result">>, accepts |-> {"result"}]

\* The finish schema both engines append to the menu: its parameters
\* have "required": ["answer"].
FinishSchema == [name |-> "finish", required |-> <<"answer">>]

FunctionSchemasNoFinish(ts) ==
    {[name |-> ts[n].name, required |-> ts[n].required] : n \in DOMAIN ts}

\* _get_function_schemas of both engines: tool.to_function_schema() for
\* each tool of self.tools, and the finish schema.
FunctionSchemas(ts) ==
    {[name |-> ts[n].name, required |-> ts[n].required] : n \in DOMAIN ts}
        \cup {FinishSchema}

(***************************************************************************)
(* The model gateway: what _call_llm can return                            *)
(***************************************************************************)

\* function.arguments, a JSON string: the text of an object (kind "map",
\* with the object m), of another JSON value such as a list (kind
\* "nonmap"), or no JSON at all (kind "badjson").
MapArgs(m) == [kind |-> "map", m |-> m]
NonMapArgs == [kind |-> "nonmap", m |-> EmptyMap]
BadJsonArgs == [kind |-> "badjson", m |-> EmptyMap]

\* The requests (function.name, function.arguments) the scripted gateway
\* chooses from.
RequestShapes ==
    {[name |-> "calculator", arguments |-> MapArgs([expression |-> "21*2"])],
     [name |-> "calculator", arguments |-> MapArgs([expression |-> "1/0"])],
     [name |-> "calculator", arguments |-> MapArgs([expression |-> "1j"])],
     [name |-> "calculator", arguments |-> MapArgs(EmptyMap)],
     [name |-> "calculator", arguments |-> NonMapArgs],
     [name |-> "calculator", arguments |-> BadJsonArgs],
     [name |-> "finish", arguments |-> MapArgs([answer |-> "42"])],
     [name |-> "finish", arguments |-> MapArgs([answer |-> NoneVal])],
     [name |-> "finish", arguments |-> MapArgs(EmptyMap)],
     [name |-> "finish", arguments |-> NonMapArgs],
     [name |-> "ghost", arguments |-> MapArgs(EmptyMap)],
     [name |-> "ghost", arguments |-> NonMapArgs]}

\* message.content of a direct answer: a text or null.
Contents == {"hello", NoneVal}

\* str(e) of a failed gateway call: the non-200 message of _call_llm, or
\* the empty text of an httpx timeout.
GatewayErrors == {"LLM call failed: 500", ""}

\* tool_calls of a response: request i carries the fresh id base + i.
ToolCalls(shapes, base) ==
    [i \in 1..Len(shapes) |->
        [id |-> base + i,
         function |-> [name |-> shapes[i].name, arguments |-> shapes[i].arguments]]]

\* What one _call_llm call gave: an exception, a direct answer, tool_calls.
FaultResponse(e) == [kind |-> "fault", content |-> e, tool_calls |-> <<>>]
DirectResponse(c) == [kind |-> "direct", content |-> c, tool_calls |-> <<>>]
ToolCallsResponse(tcs) == [kind |-> "tool_calls", content |-> NoneVal, tool_calls |-> tcs]

\* Sequences of 1..n requests.
Turns(n) == UNION {[1..k -> RequestShapes] : k \in 1..n}

(***************************************************************************)
(* Helpers of both engines                                                 *)
(***************************************************************************)

JsonLoadsLenient(arguments) == Returns(arguments)

\* json.loads(tool_call["function"]["arguments"])
JsonLoads(arguments) ==
    IF arguments.kind = "badjson"
    THEN Raises("Expecting value: line 1 column 1 (char 0)")
    ELSE Returns(arguments)

\* d.get(key, default)
DictGet(d, key, default) == IF key \in DOMAIN d THEN d[key] ELSE default

\* json.dumps(d, ensure_ascii=False): the JSON text of d, or TypeError.
JsonDumps(d) ==
    IF "result" \in DOMAIN d /\ d.result = ComplexVal
    THEN Raises("Object of type complex is not JSON serializable")
    ELSE Returns([format |-> "json", value |-> d])

\* A text that is not JSON.
PlainText(s) == [format |-> "text", value |-> s]

\* self.tools[tool_name].run(**tool_input), for tool_input a dict.
ToolRun(tool_name, tool_input) ==
    Run(tools[tool_name], tool_input, CalculatorExecute(tool_input))

\* ReactAgent._execute_tool, lines 192-193: the answer for an unknown name.
ReactLookupMiss(tool_name) ==
    PlainText("error: tool '" \o tool_name \o "' does not exist")

\* ReactAgent._execute_tool, lines 198-207: the observation of a ToolOutput.
ReactObservation(out) ==
    IF out.success
    THEN JsonDumps([success |-> TRUE, result |-> out.result])
    ELSE JsonDumps([success |-> FALSE, error |-> out.error])

\* ConversationalAgent._execute_tool, lines 153-157.
ConvLookupMiss(tool_name) ==
    JsonDumps([success |-> FALSE,
               error |-> "tool '" \o tool_name \o "' does not exist"])

\* ConversationalAgent._execute_tool, lines 162-166.
ConvObservation(out) ==
    JsonDumps([success |-> out.success,
               result |-> IF out.success THEN out.result ELSE NoneVal,
               error |-> IF ~out.success THEN out.error ELSE NoneVal])

SuccessResultWithError(answer, stps, iter) ==
    [success |-> TRUE, answer |-> answer, steps |-> stps, iterations |-> iter,
     error |-> NoneVal]

SuccessResultOffByOne(answer, stps, iter) ==
    [success |-> TRUE, answer |-> answer, steps |-> stps, iterations |-> iter - 1]

\* The dict of `return {...}` on success (execution_time is left out).
SuccessResult(answer, stps, iter) ==
    [success |-> TRUE, answer |-> answer, steps |-> stps, iterations |-> iter]

MaxIterResultReportsBound(stps, iter) ==
    [success |-> FALSE,
     answer |-> "sorry, no answer within the allowed steps",
     steps |-> stps, iterations |-> max_iterations,
     error |-> "maximum iterations reached"]

\* The dict returned when the while loop ends.
MaxIterResult(stps, iter) ==
    [success |-> FALSE,
     answer |-> "sorry, no answer within the allowed steps",
     steps |-> stps, iterations |-> iter,
     error |-> "maximum iterations reached"]

ErrorResultBare(e, stps, iter) ==
    [success |-> FALSE, answer |-> e, steps |-> stps, iterations |-> iter, error |-> e]

\* The dict returned by `except Exception as e`.
ErrorResult(e, stps, iter) ==
    [success |-> FALSE, answer |-> "error during run: " \o e,
     steps |-> stps, iterations |-> iter, error |-> e]

\* The dict run() returns: ConversationalAgent.run adds rag_enabled,
\* rag_kb_name and source_documents to each of the three dicts above.
Returned(res) ==
    IF engine = "conv"
    THEN res @@ [rag_enabled |-> enable_rag,
                 rag_kb_name |-> IF enable_rag THEN kb_name ELSE NoneVal,
                 source_documents |-> IF enable_rag THEN source_documents ELSE <<>>]
    ELSE res

Terminal == {"ANSWERED", "MAX_ITER", "ERROR"}

(***************************************************************************)
(* run() of both engines                                                   *)
(***************************************************************************)

NoResult == [pending |-> TRUE]
NoMessage == [role |-> "none"]

Update(p, msgs, stps, i, res, inv) ==
    /\ pc' = p
    /\ messages' = msgs
    /\ steps' = stps
    /\ idx' = i
    /\ result' = res
    /\ invoked' = inv
    /\ step_ids' = IF Len(stps) > Len(steps)
                   THEN Append(step_ids, assistant_message.tool_calls[idx].id)
                   ELSE step_ids

AbortRetries(e, stps, inv) ==
    Update("THINKING", messages, stps, idx, result, inv)

\* `except Exception as e` of run(): trace stps was recorded before e.
Abort(e, stps, inv) ==
    Update("ERROR", messages, stps, idx, Returned(ErrorResult(e, stps, iteration)), inv)

\* What rag_service.rag_query gives: it raises, or returns the assembled
\* context and the source documents (none when the search found nothing).
RagOutcomes ==
    {Raises("RAG query failed: no such collection"),
     Returns([context |-> "", source_documents |-> <<>>]),
     Returns([context |-> "[doc 1] 21*2 is 42", source_documents |-> <<"doc 1">>])}

RetrievalIgnoresStore == engine = "conv" /\ enable_rag

\* `if enable_rag and kb_name:` of ConversationalAgent.run (line 226);
\* ReactAgent.run takes no retrieval arguments.
RetrievalRequested == engine = "conv" /\ enable_rag /\ kb_name \notin {NoneVal, ""}

GetRagContextLeaksError(outcome) ==
    IF outcome.raised
    THEN [none |-> FALSE,
          value |-> [context |-> outcome.exc, source_documents |-> <<outcome.exc>>]]
    ELSE [none |-> FALSE, value |-> outcome.value]

\* ConversationalAgent._get_rag_context: the result of rag_query, or None
\* when rag_query raised.
GetRagContext(outcome) ==
    IF outcome.raised THEN [none |-> TRUE, value |-> EmptyMap]
    ELSE [none |-> FALSE, value |-> outcome.value]

\* _build_system_prompt(rag_context): the retrieved context is added to
\* the base prompt when it is neither None nor empty.
SystemPrompt(rag_context) ==
    IF rag_context \in {NoneVal, ""} THEN "system prompt"
    ELSE "system prompt; knowledge base: " \o rag_context

UserMessage == "what is 21*2"

InitialMessagesNoHistory(prompt, history, user_message) ==
    <<[role |-> "system", content |-> prompt],
      [role |-> "user", content |-> user_message]>>

\* The message list before the loop (conversational_agent.py 237-253):
\* the system turn, the history, the user turn.
InitialMessages(prompt, history, user_message) ==
    <<[role |-> "system", content |-> prompt]>> \o history
        \o <<[role |-> "user", content |-> user_message]>>

MaxIterationsNeverReturns ==
    /\ pc = "THINKING"
    /\ ~(iteration < max_iterations)
    /\ UNCHANGED vars

\* run() is called, up to the while loop (agent_core.py 219-229,
\* conversational_agent.py 219-258): the retrieval, when requested, the
\* initial message list and the menu.
StartRun ==
    /\ pc = "START"
    /\ pc' = "THINKING"
    /\ \E outcome \in (IF RetrievalRequested THEN RagOutcomes ELSE {Raises("")}) :
          LET rag_result == GetRagContext(outcome)
              found == RetrievalRequested /\ ~rag_result.none
              rag_context == IF found THEN DictGet(rag_result.value, "context", "")
                             ELSE NoneVal
          IN  /\ rag_calls' = IF RetrievalRequested
                              THEN Append(rag_calls, [outcome |-> outcome,
                                                      llm_calls |-> llm_calls])
                              ELSE rag_calls
              /\ source_documents' =
                    IF found THEN DictGet(rag_result.value, "source_documents", <<>>)
                    ELSE <<>>
              /\ messages' = InitialMessages(SystemPrompt(rag_context),
                                             IF engine = "conv" THEN conversation_history
                                             ELSE <<>>,
                                             UserMessage)
    /\ steps' = <<>>
    /\ iteration' = 0
    /\ functions' = FunctionSchemas(tools)
    /\ UNCHANGED callVars
    /\ UNCHANGED <<assistant_message, idx, result, llm_calls, invoked, issued,
                   responses, step_ids, attempted, menus, elapsed>>
    /\ UNCHANGED toolVars
    /\ UNCHANGED concVars

LoopConditionTimed ==
    iteration < max_iterations /\ elapsed <= max_execution_time

\* The condition of `while iteration < max_iterations:`.
LoopCondition == iteration < max_iterations

\* The scripted gateway: in a run that replays the script of an earlier
\* run, call number llm_calls gives what it gave in the earlier run.
Scripted(response) ==
    IF ~replay.active THEN TRUE
    ELSE IF llm_calls > Len(replay.script) THEN TRUE
    ELSE response = replay.script[llm_calls]

CallLLMRebuildsMenu ==
    /\ pc = "THINKING"
    /\ LoopCondition
    /\ iteration' = iteration + 1
    /\ llm_calls' = llm_calls + 1
    /\ menus' = Append(menus, IF llm_calls = 0 THEN functions
                              ELSE FunctionSchemasNoFinish(tools))
    /\ pc' = "LLM"
    /\ UNCHANGED <<attempted, source_documents, rag_calls, functions, elapsed>>
    /\ UNCHANGED callVars
    /\ UNCHANGED <<messages, steps,
                   assistant_message, idx, result, invoked, issued, responses,
                   step_ids>>
    /\ UNCHANGED toolVars
    /\ UNCHANGED concVars

\* `while iteration < max_iterations: iteration += 1`, then
\* _call_llm(messages, functions) starts.
CallLLM ==
    /\ pc = "THINKING"
    /\ LoopCondition
    /\ iteration' = iteration + 1
    /\ llm_calls' = llm_calls + 1
    /\ menus' = Append(menus, functions)
    /\ pc' = "LLM"
    /\ UNCHANGED <<attempted, source_documents, rag_calls, functions, elapsed>>
    /\ UNCHANGED callVars
    /\ UNCHANGED <<messages, steps,
                   assistant_message, idx, result, invoked, issued, responses,
                   step_ids>>
    /\ UNCHANGED toolVars
    /\ UNCHANGED concVars

\* The while condition is false: the return after the loop.
MaxIterations ==
    /\ pc = "THINKING"
    /\ ~LoopCondition
    /\ pc' = "MAX_ITER"
    /\ result' = Returned(MaxIterResult(steps, iteration))
    /\ UNCHANGED <<attempted, source_documents, rag_calls, functions, menus, elapsed>>
    /\ UNCHANGED callVars
    /\ UNCHANGED <<iteration, messages, steps,
                   assistant_message, idx, llm_calls, invoked, issued, responses,
                   step_ids>>
    /\ UNCHANGED toolVars
    /\ UNCHANGED concVars

\* _call_llm raises (status code other than 200, transport error).
LLMFault ==
    /\ pc = "LLM"
    /\ \E e \in GatewayErrors :
          /\ Scripted(FaultResponse(e))
          /\ Abort(e, steps, invoked)
          /\ responses' = Append(responses, FaultResponse(e))
    /\ UNCHANGED <<attempted, source_documents, rag_calls, functions, menus, elapsed>>
    /\ UNCHANGED callVars
    /\ UNCHANGED <<iteration, assistant_message,
                   llm_calls, issued>>
    /\ UNCHANGED toolVars
    /\ UNCHANGED concVars

\* The response has no tool_calls: the direct answer.
LLMDirectAnswer ==
    /\ pc = "LLM"
    /\ \E c \in Contents :
          /\ Scripted(DirectResponse(c))
          /\ assistant_message' = [role |-> "assistant", content |-> c]
          /\ responses' = Append(responses, DirectResponse(c))
          /\ Update("ANSWERED", messages, steps, idx,
                    Returned(SuccessResult(c, steps, iteration)), invoked)
    /\ UNCHANGED <<attempted, source_documents, rag_calls, functions, menus, elapsed>>
    /\ UNCHANGED callVars
    /\ UNCHANGED <<iteration, llm_calls, issued>>
    /\ UNCHANGED toolVars
    /\ UNCHANGED concVars

\* The response carries tool_calls.  ConversationalAgent appends the
\* assistant turn at once (line 282); ReactAgent keeps it for later.
LLMToolCalls ==
    /\ pc = "LLM"
    /\ issued < budget
    /\ \E shapes \in Turns(budget - issued) :
          /\ Scripted(ToolCallsResponse(ToolCalls(shapes, issued)))
          /\ assistant_message' =
                [role |-> "assistant", content |-> NoneVal,
                 tool_calls |-> ToolCalls(shapes, issued)]
          /\ issued' = issued + Len(shapes)
          /\ responses' = Append(responses,
                                 ToolCallsResponse(ToolCalls(shapes, issued)))
          /\ Update("ACTING",
                    IF engine = "conv"
                    THEN Append(messages, assistant_message') ELSE messages,
                    steps, 1, result, invoked)
    /\ UNCHANGED <<attempted, source_documents, rag_calls, functions, menus, elapsed>>
    /\ UNCHANGED callVars
    /\ UNCHANGED <<iteration, llm_calls>>
    /\ UNCHANGED toolVars
    /\ UNCHANGED concVars

IsFinishNever(function_name) == FALSE

\* `if function_name == "finish":` of both engines.
IsFinish(function_name) == function_name = "finish"

\* The requests `await self._execute_tool(function_name, function_args)`
\* was reached for (agent_core.py 281, conversational_agent.py 326): the
\* arguments of tool_call tc were loaded and its name is not finish.
Attempt(tc) ==
    IF ~JsonLoads(tc.function.arguments).raised /\ ~IsFinish(tc.function.name)
    THEN Append(attempted, tc.id)
    ELSE attempted

\* The pydantic model AgentStep declares action_input: Optional[Dict[str,
\* Any]]: constructing it with a list raises ValidationError.
AgentStepValidates(action_input) == action_input.kind = "map"

\* AgentStep(action, action_input, observation) of ReactAgent.
AgentStep(action, action_input, observation) ==
    [action |-> action, action_input |-> action_input, observation |-> observation]

\* The request ReactAgent.run looks at: tool_calls[0] (line 249).
ReactToolCall == assistant_message.tool_calls[1]

ReactRecordToolFirst(tc, function_args, obs, inv) ==
    Update("THINKING",
           messages \o <<[role |-> "tool", tool_call_id |-> tc.id, content |-> obs],
                         assistant_message>>,
           Append(steps, AgentStep(tc.function.name, function_args, obs)),
           idx, result, inv)

\* ReactAgent.run, lines 287-301: the step, the assistant turn and the
\* tool-result turn for observation obs of tool_call tc.
ReactRecord(tc, function_args, obs, inv) ==
    Update("THINKING",
           messages \o <<assistant_message,
                         [role |-> "tool", tool_call_id |-> tc.id, content |-> obs]>>,
           Append(steps, AgentStep(tc.function.name, function_args, obs)),
           idx, result, inv)

\* ReactAgent.run, lines 248-281, up to the await of tool.run.
ReactBeginCall ==
    /\ pc = "ACTING"
    /\ engine = "react"
    /\ LET tc == ReactToolCall
           function_name == tc.function.name
           loaded == JsonLoads(tc.function.arguments)
           function_args == loaded.value
       IN  IF loaded.raised
           THEN Abort(loaded.exc, steps, invoked)
           ELSE IF IsFinish(function_name)
           THEN IF function_args.kind # "map"
                THEN Abort("'list' object has no attribute 'get'", steps, invoked)
                ELSE LET final_answer == DictGet(function_args.m, "answer", "")
                         stps == Append(steps,
                                   AgentStep("finish",
                                             MapArgs([answer |-> final_answer]),
                                             NoneVal))
                     IN  Update("ANSWERED", messages, stps, idx,
                                SuccessResult(final_answer, stps, iteration), invoked)
           ELSE IF function_name \notin DOMAIN tools
           THEN IF ~AgentStepValidates(function_args)
                THEN Abort("1 validation error for AgentStep", steps, invoked)
                ELSE ReactRecord(tc, function_args, ReactLookupMiss(function_name),
                                 invoked)
           ELSE IF function_args.kind # "map"
           THEN Abort("run() argument after ** must be a mapping, not list",
                      steps, invoked)
           ELSE Update("TOOL", messages, steps, idx, result,
                       Append(invoked, [id |-> tc.id, name |-> function_name,
                                        input |-> function_args.m]))
    /\ attempted' = Attempt(ReactToolCall)
    /\ UNCHANGED <<source_documents, rag_calls, functions, menus, elapsed>>
    /\ UNCHANGED callVars
    /\ UNCHANGED <<iteration, assistant_message,
                   llm_calls, issued, responses>>
    /\ UNCHANGED toolVars
    /\ UNCHANGED concVars

\* ReactAgent.run, lines 281-301, after tool.run returned.
ReactEndCall ==
    /\ pc = "TOOL"
    /\ engine = "react"
    /\ LET tc == ReactToolCall
           function_args == JsonLoads(tc.function.arguments).value
           out == ToolRun(tc.function.name, function_args.m).value
           observation == ReactObservation(out)
       IN  IF observation.raised
           THEN Abort(observation.exc, steps, invoked)
           ELSE ReactRecord(tc, function_args, observation.value, invoked)
    /\ UNCHANGED <<attempted, source_documents, rag_calls, functions, menus, elapsed>>
    /\ UNCHANGED callVars
    /\ UNCHANGED <<iteration, assistant_message,
                   llm_calls, issued, responses>>
    /\ UNCHANGED toolVars
    /\ UNCHANGED concVars

\* The step dict of ConversationalAgent (lines 296-301), and the same
\* step after steps[-1]["observation"] = observation (line 333).
ConvStep(iter, action, input) ==
    [iteration |-> iter, action |-> action, input |-> input]

WithObservation(step, observation) ==
    [iteration |-> step.iteration, action |-> step.action, input |-> step.input,
     observation |-> observation]

SetLastObservationSkipped(stps, observation) == stps

SetLastObservation(stps, observation) ==
    IF stps = <<>> THEN stps
    ELSE [stps EXCEPT ![Len(stps)] = WithObservation(stps[Len(stps)], observation)]

ConvToolCallReversed ==
    assistant_message.tool_calls[Len(assistant_message.tool_calls) - idx + 1]

\* The request the for loop of ConversationalAgent.run is at.
ConvToolCall == assistant_message.tool_calls[idx]

ConvNextPcFirstOnly == "THINKING"

\* After the body of the for loop: the next request, or the next iteration.
ConvNextPc == IF idx + 1 > Len(assistant_message.tool_calls) THEN "THINKING" ELSE "ACTING"

ConvRecordFirstId(tc, stps, obs, inv) ==
    Update(ConvNextPc,
           Append(messages, [role |-> "tool",
                             tool_call_id |-> assistant_message.tool_calls[1].id,
                             content |-> obs]),
           SetLastObservation(stps, obs),
           idx + 1, result, inv)

\* ConversationalAgent.run, lines 332-340: the observation and the
\* tool-result turn of tool_call tc.
ConvRecord(tc, stps, obs, inv) ==
    Update(ConvNextPc,
           Append(messages, [role |-> "tool", tool_call_id |-> tc.id, content |-> obs]),
           SetLastObservation(stps, obs),
           idx + 1, result, inv)

\* ConversationalAgent.run, lines 287-326, up to the await of tool.run.
ConvBeginCall ==
    /\ pc = "ACTING"
    /\ engine = "conv"
    /\ LET tc == ConvToolCall
           function_name == tc.function.name
           loaded == JsonLoads(tc.function.arguments)
           function_args == loaded.value
           stps == Append(steps, ConvStep(iteration, function_name, function_args))
       IN  IF loaded.raised
           THEN Abort(loaded.exc, steps, invoked)
           ELSE IF IsFinish(function_name)
           THEN IF function_args.kind # "map"
                THEN Abort("'list' object has no attribute 'get'", stps, invoked)
                ELSE Update("ANSWERED", messages, stps, idx,
                            Returned(SuccessResult(DictGet(function_args.m, "answer", ""),
                                                   stps, iteration)),
                            invoked)
           ELSE IF function_name \notin DOMAIN tools
           THEN LET miss == ConvLookupMiss(function_name)
                IN  IF miss.raised THEN Abort(miss.exc, stps, invoked)
                    ELSE ConvRecord(tc, stps, miss.value, invoked)
           ELSE IF function_args.kind # "map"
           THEN Abort("run() argument after ** must be a mapping, not list",
                      stps, invoked)
           ELSE Update("TOOL", messages, stps, idx, result,
                       Append(invoked, [id |-> tc.id, name |-> function_name,
                                        input |-> function_args.m]))
    /\ attempted' = Attempt(ConvToolCall)
    /\ UNCHANGED <<source_documents, rag_calls, functions, menus, elapsed>>
    /\ UNCHANGED callVars
    /\ UNCHANGED <<iteration, assistant_message,
                   llm_calls, issued, responses>>
    /\ UNCHANGED toolVars
    /\ UNCHANGED concVars

\* ConversationalAgent.run, lines 326-340, after tool.run returned.
ConvEndCall ==
    /\ pc = "TOOL"
    /\ engine = "conv"
    /\ LET tc == ConvToolCall
           function_args == JsonLoads(tc.function.arguments).value
           out == ToolRun(tc.function.name, function_args.m).value
           observation == ConvObservation(out)
       IN  IF observation.raised
           THEN Abort(observation.exc, steps, invoked)
           ELSE ConvRecord(tc, steps, observation.value, invoked)
    /\ UNCHANGED <<attempted, source_documents, rag_calls, functions, menus, elapsed>>
    /\ UNCHANGED callVars
    /\ UNCHANGED <<iteration, assistant_message,
                   llm_calls, issued, responses>>
    /\ UNCHANGED toolVars
    /\ UNCHANGED concVars

ToolIdle ==
    /\ t_tool = CalculatorTool
    /\ t_kwargs = EmptyMap
    /\ t_body = Returns(NoneVal)
    /\ t_pc = "IDLE"
    /\ t_called = 0
    /\ t_entered = 0
    /\ t_fault = FALSE
    /\ t_out = Returns(NoneVal)
    /\ runs = <<>>
    /\ self_steps = <<>>
    /\ registry_tools = EmptyMap
    /\ registry_op = NoOp
    /\ email = NoEmail
    /\ session = NoSession

Init ==
    /\ engine \in {"react", "conv"}
    /\ max_iterations \in (-1)..MaxIterBound
    /\ tools = ToolsDict(<<CalculatorTool>>)
    /\ pc = "START"
    /\ iteration = 0
    /\ messages = <<>>
    /\ steps = <<>>
    /\ assistant_message = NoMessage
    /\ idx = 0
    /\ result = NoResult
    /\ llm_calls = 0
    /\ invoked = <<>>
    /\ issued = 0
    /\ responses = <<>>
    /\ step_ids = <<>>
    /\ attempted = <<>>
    /\ budget = MaxRequests
    /\ conversation_history = <<>>
    /\ enable_rag = FALSE
    /\ kb_name = NoneVal
    /\ source_documents = <<>>
    /\ rag_calls = <<>>
    /\ functions = {}
    /\ menus = <<>>
    /\ max_execution_time = DefaultMaxExecutionTime
    /\ elapsed = 0
    /\ replay = NoReplay
    /\ ToolIdle

Next ==
    \/ StartRun
    \/ CallLLM
    \/ MaxIterations
    \/ LLMFault
    \/ LLMDirectAnswer
    \/ LLMToolCalls
    \/ ReactBeginCall
    \/ ReactEndCall
    \/ ConvBeginCall
    \/ ConvEndCall

Spec == Init /\ [][Next]_vars

InitFair ==
    /\ engine \in {"react", "conv"}
    /\ max_iterations \in (-1)..MaxIterBound
    /\ tools = ToolsDict(<<CalculatorTool>>)
    /\ pc = "START"
    /\ iteration = 0
    /\ messages = <<>>
    /\ steps = <<>>
    /\ assistant_message = NoMessage
    /\ idx = 0
    /\ result = NoResult
    /\ llm_calls = 0
    /\ invoked = <<>>
    /\ issued = 0
    /\ responses = <<>>
    /\ step_ids = <<>>
    /\ attempted = <<>>
    /\ budget = MaxFairRequests
    /\ conversation_history = <<>>
    /\ enable_rag = FALSE
    /\ kb_name = NoneVal
    /\ source_documents = <<>>
    /\ rag_calls = <<>>
    /\ functions = {}
    /\ menus = <<>>
    /\ max_execution_time = DefaultMaxExecutionTime
    /\ elapsed = 0
    /\ replay = NoReplay
    /\ ToolIdle

\* A run is one coroutine: when the gateway call or the capability it
\* awaits returns or raises, it takes its next step.
FairSpec == InitFair /\ [][Next]_vars /\ WF_vars(Next)

(***************************************************************************)
(* Runs of both engines over a capability table that may hold a            *)
(* capability named finish                                                 *)
(***************************************************************************)

InitMenu ==
    /\ engine \in {"react", "conv"}
    /\ max_iterations \in 0..MaxIterBound
    /\ tools \in {ToolsDict(<<CalculatorTool>>), ToolsDict(<<CalculatorTool, FinishTool>>)}
    /\ pc = "START"
    /\ iteration = 0
    /\ messages = <<>>
    /\ steps = <<>>
    /\ assistant_message = NoMessage
    /\ idx = 0
    /\ result = NoResult
    /\ llm_calls = 0
    /\ invoked = <<>>
    /\ issued = 0
    /\ responses = <<>>
    /\ step_ids = <<>>
    /\ attempted = <<>>
    /\ budget = MaxFairRequests
    /\ conversation_history = <<>>
    /\ enable_rag = FALSE
    /\ kb_name = NoneVal
    /\ source_documents = <<>>
    /\ rag_calls = <<>>
    /\ functions = {}
    /\ menus = <<>>
    /\ max_execution_time = DefaultMaxExecutionTime
    /\ elapsed = 0
    /\ replay = NoReplay
    /\ ToolIdle

SpecMenu == InitMenu /\ [][Next]_vars

(***************************************************************************)
(* Two runs over the same gateway script: after a run has returned, a      *)
(* second run is made on a new engine of either class, with the same       *)
(* capabilities and max_iterations and with any max_execution_time; the    *)
(* gateway repeats its responses.  Meanwhile the wall clock may pass       *)
(* max_execution_time.                                                     *)
(***************************************************************************)

\* What a caller sees of a finished run.
RunSummary ==
    [state |-> pc, success |-> result.success, answer |-> result.answer,
     iterations |-> result.iterations,
     actions |-> [i \in DOMAIN result.steps |-> result.steps[i].action],
     invocations |-> [i \in DOMAIN invoked |->
                        [name |-> invoked[i].name, input |-> invoked[i].input]]]

\* The values of config.max_execution_time the runs are made with.
ExecutionTimes == {1, DefaultMaxExecutionTime}

\* While run() waits for the gateway or a capability, more than
\* max_execution_time seconds have passed since start_time.
Overrun ==
    /\ pc \in {"LLM", "TOOL"}
    /\ elapsed <= max_execution_time
    /\ elapsed' = max_execution_time + 1
    /\ UNCHANGED <<engine, max_iterations, tools, pc, iteration, messages, steps,
                   assistant_message, idx, result, llm_calls, invoked, issued,
                   responses, step_ids, attempted, budget, conversation_history,
                   enable_rag, kb_name, source_documents, rag_calls, functions,
                   menus, max_execution_time, replay>>
    /\ UNCHANGED toolVars
    /\ UNCHANGED concVars

\* The first run has returned: a new engine of class e with
\* max_execution_time = t is built and its run() is called.
Restart ==
    /\ pc \in Terminal
    /\ ~replay.active
    /\ \E e \in {"react", "conv"}, t \in ExecutionTimes :
          /\ engine' = e
          /\ max_execution_time' = t
    /\ replay' = [active |-> TRUE, engine |-> engine,
                  max_execution_time |-> max_execution_time, elapsed |-> elapsed,
                  script |-> responses, first |-> RunSummary]
    /\ pc' = "START"
    /\ iteration' = 0
    /\ messages' = <<>>
    /\ steps' = <<>>
    /\ assistant_message' = NoMessage
    /\ idx' = 0
    /\ result' = NoResult
    /\ llm_calls' = 0
    /\ invoked' = <<>>
    /\ issued' = 0
    /\ responses' = <<>>
    /\ step_ids' = <<>>
    /\ attempted' = <<>>
    /\ source_documents' = <<>>
    /\ rag_calls' = <<>>
    /\ functions' = {}
    /\ menus' = <<>>
    /\ elapsed' = 0
    /\ UNCHANGED <<max_iterations, tools, budget, conversation_history,
                   enable_rag, kb_name>>
    /\ UNCHANGED toolVars
    /\ UNCHANGED concVars

InitReplay ==
    /\ engine \in {"react", "conv"}
    /\ max_iterations \in 0..MaxIterBound
    /\ tools = ToolsDict(<<CalculatorTool>>)
    /\ pc = "START"
    /\ iteration = 0
    /\ messages = <<>>
    /\ steps = <<>>
    /\ assistant_message = NoMessage
    /\ idx = 0
    /\ result = NoResult
    /\ llm_calls = 0
    /\ invoked = <<>>
    /\ issued = 0
    /\ responses = <<>>
    /\ step_ids = <<>>
    /\ attempted = <<>>
    /\ budget = MaxConvRequests
    /\ conversation_history = <<>>
    /\ enable_rag = FALSE
    /\ kb_name = NoneVal
    /\ source_documents = <<>>
    /\ rag_calls = <<>>
    /\ functions = {}
    /\ menus = <<>>
    /\ max_execution_time \in ExecutionTimes
    /\ elapsed = 0
    /\ replay = NoReplay
    /\ ToolIdle

NextReplay ==
    \/ StartRun
    \/ CallLLM
    \/ MaxIterations
    \/ LLMFault
    \/ LLMDirectAnswer
    \/ LLMToolCalls
    \/ ReactBeginCall
    \/ ReactEndCall
    \/ ConvBeginCall
    \/ ConvEndCall
    \/ Overrun
    \/ Restart

SpecReplay == InitReplay /\ [][NextReplay]_vars

(***************************************************************************)
(* ConversationalAgent.run with a conversation history and retrieval       *)
(***************************************************************************)

\* service.get_messages_as_dict(session_id): the first n stored turns of a
\* session, user and assistant turns in alternation.
History(n) ==
    [i \in 1..n |->
        [role |-> IF i % 2 = 1 THEN "user" ELSE "assistant",
         content |-> "turn " \o ToString(i)]]

InitConv ==
    /\ engine = "conv"
    /\ max_iterations \in 0..MaxIterBound
    /\ tools = ToolsDict(<<CalculatorTool>>)
    /\ pc = "START"
    /\ iteration = 0
    /\ messages = <<>>
    /\ steps = <<>>
    /\ assistant_message = NoMessage
    /\ idx = 0
    /\ result = NoResult
    /\ llm_calls = 0
    /\ invoked = <<>>
    /\ issued = 0
    /\ responses = <<>>
    /\ step_ids = <<>>
    /\ attempted = <<>>
    /\ budget = MaxConvRequests
    /\ conversation_history \in {History(n) : n \in 0..MaxHistory}
    /\ enable_rag \in BOOLEAN
    /\ kb_name \in {NoneVal, "kb"}
    /\ source_documents = <<>>
    /\ rag_calls = <<>>
    /\ functions = {}
    /\ menus = <<>>
    /\ max_execution_time = DefaultMaxExecutionTime
    /\ elapsed = 0
    /\ replay = NoReplay
    /\ ToolIdle

NextConv ==
    \/ StartRun
    \/ CallLLM
    \/ MaxIterations
    \/ LLMFault
    \/ LLMDirectAnswer
    \/ LLMToolCalls
    \/ ConvBeginCall
    \/ ConvEndCall

SpecConv == InitConv /\ [][NextConv]_vars

(***************************************************************************)
(* Tool.run on its own                                                     *)
(***************************************************************************)

\* Tools by the shape of their schema and of the signature of _execute.
ToolClasses ==
    {[name |-> "t0", required |-> <<>>, accepts |-> {"a"}],
     [name |-> "t1", required |-> <<"a">>, accepts |-> {"a", "b"}],
     [name |-> "t2", required |-> <<"a", "b">>, accepts |-> {"a", "b"}]}

\* The keyword arguments of a call of run.
KwargsSet == UNION {[S -> {"v"}] : S \in SUBSET {"a", "b", "c"}}

\* What the body of _execute does when it is entered: it returns a
\* ToolOutput, or raises an Exception whose str() may be empty.
Bodies ==
    {Returns(ToolOutput(TRUE, "ok", NoneVal)),
     Returns(ToolOutput(FALSE, NoneVal, "inner failure")),
     Raises("boom"),
     Raises("")}

EngineIdle ==
    /\ engine = "none"
    /\ max_iterations = 0
    /\ tools = ToolsDict(<<CalculatorTool>>)
    /\ pc = "IDLE"
    /\ iteration = 0
    /\ messages = <<>>
    /\ steps = <<>>
    /\ assistant_message = NoMessage
    /\ idx = 0
    /\ result = NoResult
    /\ llm_calls = 0
    /\ invoked = <<>>
    /\ issued = 0
    /\ responses = <<>>
    /\ step_ids = <<>>
    /\ attempted = <<>>
    /\ budget = 0
    /\ conversation_history = <<>>
    /\ enable_rag = FALSE
    /\ kb_name = NoneVal
    /\ source_documents = <<>>
    /\ rag_calls = <<>>
    /\ functions = {}
    /\ menus = <<>>
    /\ max_execution_time = DefaultMaxExecutionTime
    /\ elapsed = 0
    /\ replay = NoReplay

InitTool ==
    /\ EngineIdle
    /\ t_tool \in ToolClasses
    /\ t_kwargs \in KwargsSet
    /\ t_body \in Bodies
    /\ t_pc = "CALL"
    /\ t_called = 0
    /\ t_entered = 0
    /\ t_fault = FALSE
    /\ t_out = Returns(NoneVal)
    /\ runs = <<>>
    /\ self_steps = <<>>
    /\ registry_tools = EmptyMap
    /\ registry_op = NoOp
    /\ email = NoEmail
    /\ session = NoSession

\* Tool.run, lines 100-102 and 109-114: self._validate_parameters(kwargs).
ToolValidate ==
    /\ t_pc = "CALL"
    /\ LET v == ValidateParameters(t_tool, t_kwargs)
       IN  IF v.raised
           THEN /\ t_out' = ExceptHandler(t_tool, v)
                /\ t_fault' = TRUE
                /\ t_pc' = "RETURNED"
           ELSE /\ t_pc' = "VALIDATED"
                /\ UNCHANGED <<t_out, t_fault>>
    /\ UNCHANGED <<t_tool, t_kwargs, t_body, t_called, t_entered>>
    /\ UNCHANGED <<registry_tools, registry_op, email, session>>
    /\ UNCHANGED engineVars
    /\ UNCHANGED concVars

\* Tool.run, lines 105-114: result = await self._execute(**kwargs).
ToolExecute ==
    /\ t_pc = "VALIDATED"
    /\ LET r == CallExecute(t_tool, t_kwargs, t_body)
       IN  /\ t_out' = IF r.raised THEN ExceptHandler(t_tool, r) ELSE r
           /\ t_fault' = r.raised
    /\ t_called' = t_called + 1
    /\ t_entered' = IF ExecuteBinds(t_tool, t_kwargs) THEN t_entered + 1 ELSE t_entered
    /\ t_pc' = "RETURNED"
    /\ UNCHANGED <<t_tool, t_kwargs, t_body>>
    /\ UNCHANGED <<registry_tools, registry_op, email, session>>
    /\ UNCHANGED engineVars
    /\ UNCHANGED concVars

NextTool ==
    \/ ToolValidate
    \/ ToolExecute

SpecTool == InitTool /\ [][NextTool]_vars

(***************************************************************************)
(* ToolRegistry (tool_base.py): one _tools dict for the process            *)
(***************************************************************************)

\* The Tool instances callers register: instance i of a tool class.
RegistryTools ==
    [name : {"calculator", "clock", "search"}, instance : 1..MaxInstances]

RegisterOverwrites(tool) ==
    /\ registry_tools' = [n \in DOMAIN registry_tools \cup {tool.name} |->
                             IF n = tool.name THEN tool ELSE registry_tools[n]]
    /\ registry_op' = [op |-> "register", tool |-> tool, raised |-> FALSE]
    /\ UNCHANGED <<t_tool, t_kwargs, t_body, t_pc, t_called, t_entered, t_fault, t_out, email, session>>
    /\ UNCHANGED engineVars
    /\ UNCHANGED concVars

\* ToolRegistry.register(tool): ValueError for a name that is a key of
\* _tools, before anything is assigned; otherwise _tools[tool.name] = tool.
Register(tool) ==
    /\ IF tool.name \in DOMAIN registry_tools
       THEN /\ registry_op' = [op |-> "register", tool |-> tool, raised |-> TRUE]
            /\ UNCHANGED registry_tools
       ELSE /\ registry_tools' = [n \in DOMAIN registry_tools \cup {tool.name} |->
                                    IF n = tool.name THEN tool ELSE registry_tools[n]]
            /\ registry_op' = [op |-> "register", tool |-> tool, raised |-> FALSE]
    /\ UNCHANGED <<t_tool, t_kwargs, t_body, t_pc, t_called, t_entered, t_fault, t_out, email, session>>
    /\ UNCHANGED engineVars
    /\ UNCHANGED concVars

\* ToolRegistry.clear(): self._tools.clear().
Clear ==
    /\ registry_tools' = EmptyMap
    /\ registry_op' = [op |-> "clear"]
    /\ UNCHANGED <<t_tool, t_kwargs, t_body, t_pc, t_called, t_entered, t_fault, t_out, email, session>>
    /\ UNCHANGED engineVars
    /\ UNCHANGED concVars

InitRegistry == EngineIdle /\ ToolIdle

NextRegistry ==
    \/ \E tool \in RegistryTools : Register(tool)
    \/ Clear

SpecRegistry == InitRegistry /\ [][NextRegistry]_vars

(***************************************************************************)
(* EmailSenderTool._execute (extended_tools.py): the retry loop            *)
(*                                                                         *)
(* email.log lists what each pass of the for loop did, email.sleeps the    *)
(* attempts that were followed by time.sleep(3).                           *)
(***************************************************************************)

\* What one pass of the inner try does.  "sent": sendmail and quit
\* returned.  "sent_quit_response": sendmail returned and quit raised
\* SMTPResponseException, which the try around quit catches.
\* "sent_quit_disconnected": sendmail returned and quit raised
\* SMTPServerDisconnected, which that try does not catch.  The others:
\* the exception raised before sendmail returned.
SendOutcomes ==
    {"sent", "sent_quit_response", "sent_quit_disconnected",
     "SMTPAuthenticationError", "SMTPConnectError", "SMTPServerDisconnected",
     "SSLError", "Exception"}

\* The passes after which the server has accepted the message.
Delivered(log) == {i \in DOMAIN log : log[i] \in {"sent", "sent_quit_response",
                                                   "sent_quit_disconnected"}}

\* The pass reaches `return ToolOutput(success=True, ...)`.
ReturnsSuccess(outcome) == outcome \in {"sent", "sent_quit_response"}

\* The except clause a failed pass ends in.
Handler(outcome) ==
    IF outcome = "sent_quit_disconnected" THEN "SMTPServerDisconnected" ELSE outcome

\* _execute is called: the environment is read, and `for attempt in
\* range(1, max_attempts + 1)` starts or is empty.
EmailStart ==
    /\ email.pc = "CALL"
    /\ email' =
          IF email.config = "bad_port"
          THEN [email EXCEPT !.pc = "RETURNED",
                             !.out = ToolOutput(FALSE, NoneVal, "SMTP_PORT must be an integer")]
          ELSE IF email.config = "missing"
          THEN [email EXCEPT !.pc = "RETURNED",
                             !.out = ToolOutput(FALSE, NoneVal, "mail configuration missing")]
          ELSE IF email.max_attempts < 1
          THEN [email EXCEPT !.pc = "RETURNED",
                             !.out = ToolOutput(FALSE, NoneVal, "maximum retries reached")]
          ELSE [email EXCEPT !.pc = "ATTEMPT", !.attempt = 1]
    /\ UNCHANGED <<t_tool, t_kwargs, t_body, t_pc, t_called, t_entered, t_fault, t_out,
                   registry_tools, registry_op, session>>
    /\ UNCHANGED engineVars
    /\ UNCHANGED concVars

\* One pass of the for loop, up to the return or to `if attempt <
\* max_attempts:`.
EmailAttempt ==
    /\ email.pc = "ATTEMPT"
    /\ \E outcome \in SendOutcomes :
          email' =
             IF ReturnsSuccess(outcome)
             THEN [email EXCEPT !.pc = "RETURNED",
                                !.log = Append(email.log, outcome),
                                !.out = ToolOutput(TRUE, "mail sent", NoneVal)
                                           @@ [metadata |-> [attempts |-> email.attempt]]]
             ELSE IF email.attempt = email.max_attempts
             THEN [email EXCEPT !.pc = "RETURNED",
                                !.log = Append(email.log, outcome),
                                !.out = ToolOutput(FALSE, NoneVal,
                                                   "send failed: " \o Handler(outcome))]
             ELSE [email EXCEPT !.pc = "SLEEP", !.log = Append(email.log, outcome)]
    /\ UNCHANGED <<t_tool, t_kwargs, t_body, t_pc, t_called, t_entered, t_fault, t_out,
                   registry_tools, registry_op, session>>
    /\ UNCHANGED engineVars
    /\ UNCHANGED concVars

\* `if attempt < max_attempts: time.sleep(3)`, then the next pass.
EmailSleep ==
    /\ email.pc = "SLEEP"
    /\ email.attempt < email.max_attempts
    /\ email' = [email EXCEPT !.pc = "ATTEMPT",
                              !.sleeps = Append(email.sleeps, email.attempt),
                              !.attempt = email.attempt + 1]
    /\ UNCHANGED <<t_tool, t_kwargs, t_body, t_pc, t_called, t_entered, t_fault, t_out,
                   registry_tools, registry_op, session>>
    /\ UNCHANGED engineVars
    /\ UNCHANGED concVars

InitEmail ==
    /\ EngineIdle
    /\ t_tool = CalculatorTool
    /\ t_kwargs = EmptyMap
    /\ t_body = Returns(NoneVal)
    /\ t_pc = "IDLE"
    /\ t_called = 0
    /\ t_entered = 0
    /\ t_fault = FALSE
    /\ t_out = Returns(NoneVal)
    /\ runs = <<>>
    /\ self_steps = <<>>
    /\ registry_tools = EmptyMap
    /\ registry_op = NoOp
    /\ session = NoSession
    /\ \E n \in (-1)..MaxAttempts, c \in {"ok", "missing", "bad_port"} :
          email = [pc |-> "CALL", max_attempts |-> n, config |-> c, attempt |-> 0,
                   log |-> <<>>, sleeps |-> <<>>, out |-> NoneVal]

NextEmail ==
    \/ EmailStart
    \/ EmailAttempt
    \/ EmailSleep

SpecEmail == InitEmail /\ [][NextEmail]_vars

(***************************************************************************)
(* agent_conversation_query (agent_routes.py) on one session               *)
(*                                                                         *)
(* The handler is a coroutine: it runs without interruption up to          *)
(* `await agent.run(...)`, where the handlers of other requests may take   *)
(* their turn, and again from the return of run() to its own end.          *)
(* session.stored is the messages table of the session in the order        *)
(* get_messages returns it (created_at, set when the row is inserted);     *)
(* the field req of a row names the request that wrote it.                 *)
(***************************************************************************)

Queries == 1..NumQueries

\* request.message of request r.
RequestMessage(r) == "message " \o ToString(r)

\* A finish answer that is a JSON object: function_args.get("answer", "")
\* of arguments such as {"answer": {"value": 42}}.
ObjectVal == "<dict>"

\* What run() of ConversationalAgent can return to the handler: the state
\* the run ended in and result["answer"].
RunOutcomes ==
    {[state |-> "ANSWERED", answer |-> a] : a \in {"42", "", NoneVal, ObjectVal}}
        \cup {[state |-> "MAX_ITER", answer |-> "sorry, no answer within the allowed steps"],
              [state |-> "ERROR", answer |-> "error during run: LLM call failed: 500"]}

\* A value the column content = Column(Text) takes: a text or NULL.
Storable(content) == content # ObjectVal

\* ConversationService.add_message: one row, one commit.  The commit
\* raises when the driver cannot bind the content.
AddMessage(stored, role, content, r) ==
    IF Storable(content)
    THEN Returns(Append(stored, [role |-> role, content |-> content, req |-> r]))
    ELSE Raises("can't adapt type 'dict'")

\* get_messages_as_dict: role and content of each stored message.
GetMessagesAsDict(stored) ==
    [i \in 1..Len(stored) |-> [role |-> stored[i].role, content |-> stored[i].content]]

\* AgentConversationResponse(**response_data): answer is declared str.
ResponseValid(answer) == answer \notin {NoneVal, ObjectVal}

\* The handler up to `await agent.run(...)`: the conversation exists, the
\* engine is built and the history is read.
QueryStart(r) ==
    /\ session.reqs[r].pc = "NEW"
    /\ session' = [session EXCEPT
          !.reqs[r].pc = "RUNNING",
          !.reqs[r].history = GetMessagesAsDict(session.stored)]
    /\ UNCHANGED <<t_tool, t_kwargs, t_body, t_pc, t_called, t_entered, t_fault, t_out,
                   registry_tools, registry_op, email>>
    /\ UNCHANGED engineVars
    /\ UNCHANGED concVars

\* The handler from the return of run() to its end: the two add_message
\* calls and the response, or the HTTP 500 of `except Exception`.
QueryFinish(r) ==
    /\ session.reqs[r].pc = "RUNNING"
    /\ \E res \in RunOutcomes :
          LET u == AddMessage(session.stored, "user", RequestMessage(r), r)
              a == IF u.raised THEN u
                   ELSE AddMessage(u.value, "assistant", res.answer, r)
              stored == IF u.raised THEN session.stored
                        ELSE IF a.raised THEN u.value ELSE a.value
          IN  session' = [session EXCEPT
                !.stored = stored,
                !.reqs[r].pc = "DONE",
                !.reqs[r].state = res.state,
                !.reqs[r].answer = res.answer,
                !.reqs[r].http = IF ~a.raised /\ ResponseValid(res.answer)
                                 THEN "200" ELSE "500"]
    /\ UNCHANGED <<t_tool, t_kwargs, t_body, t_pc, t_called, t_entered, t_fault, t_out,
                   registry_tools, registry_op, email>>
    /\ UNCHANGED engineVars
    /\ UNCHANGED concVars

InitSession ==
    /\ EngineIdle
    /\ t_tool = CalculatorTool
    /\ t_kwargs = EmptyMap
    /\ t_body = Returns(NoneVal)
    /\ t_pc = "IDLE"
    /\ t_called = 0
    /\ t_entered = 0
    /\ t_fault = FALSE
    /\ t_out = Returns(NoneVal)
    /\ runs = <<>>
    /\ self_steps = <<>>
    /\ registry_tools = EmptyMap
    /\ registry_op = NoOp
    /\ email = NoEmail
    /\ session = [stored |-> <<>>,
                  reqs |-> [r \in Queries |->
                              [pc |-> "NEW", history |-> <<>>, state |-> "-",
                               answer |-> "-", http |-> "-"]]]

NextSession ==
    \/ \E r \in Queries : QueryStart(r)
    \/ \E r \in Queries : QueryFinish(r)

SpecSession == InitSession /\ [][NextSession]_vars

(***************************************************************************)
(* Concurrent runs on one engine instance                                  *)
(*                                                                         *)
(* Each run() is a coroutine: between two awaits its code runs without     *)
(* interruption, and at `await self._call_llm(...)` and `await             *)
(* self._execute_tool(...)` another run may take its turn.  The locals of  *)
(* run r are runs[r]; self.steps of ReactAgent is self_steps, one          *)
(* attribute for all the runs of the instance.                             *)
(***************************************************************************)

Runs == 1..NumRuns

\* The query of run r, and the expression the model asks for on it.
Query(r) == "query " \o ToString(r)
Expr(r) == IF r = 1 THEN "21*2" ELSE ToString(r) \o "/0"

\* The id of the request the gateway issues to run r on iteration i.
ConcId(r, i) == 10 * r + i

\* The trace run r reads and appends to: self.steps in ReactAgent, the
\* local `steps` in ConversationalAgent.
Trace(r) == IF engine = "react" THEN self_steps ELSE runs[r].steps

\* The assignment to the trace of run r.
SetTrace(r, stps) ==
    IF engine = "react" THEN self_steps' = stps ELSE UNCHANGED self_steps

ConcAssistant(r) ==
    [role |-> "assistant", content |-> NoneVal,
     tool_calls |-> <<[id |-> ConcId(r, runs[r].iteration),
                       function |-> [name |-> "calculator",
                                     arguments |-> MapArgs([expression |-> Expr(r)])]]>>]

InitConc ==
    /\ engine \in {"react", "conv"}
    /\ max_iterations = MaxIterBound
    /\ tools = ToolsDict(<<CalculatorTool>>)
    /\ pc = "IDLE"
    /\ iteration = 0
    /\ messages = <<>>
    /\ steps = <<>>
    /\ assistant_message = NoMessage
    /\ idx = 0
    /\ result = NoResult
    /\ llm_calls = 0
    /\ invoked = <<>>
    /\ issued = 0
    /\ responses = <<>>
    /\ step_ids = <<>>
    /\ attempted = <<>>
    /\ budget = 0
    /\ conversation_history = <<>>
    /\ enable_rag = FALSE
    /\ kb_name = NoneVal
    /\ source_documents = <<>>
    /\ rag_calls = <<>>
    /\ functions = {}
    /\ menus = <<>>
    /\ max_execution_time = DefaultMaxExecutionTime
    /\ elapsed = 0
    /\ replay = NoReplay
    /\ t_tool = CalculatorTool
    /\ t_kwargs = EmptyMap
    /\ t_body = Returns(NoneVal)
    /\ t_pc = "IDLE"
    /\ t_called = 0
    /\ t_entered = 0
    /\ t_fault = FALSE
    /\ t_out = Returns(NoneVal)
    /\ runs = [r \in Runs |->
                 [pc |-> "START", iteration |-> 0, messages |-> <<>>, steps |-> <<>>,
                  recorded |-> <<>>, result |-> NoResult]]
    /\ self_steps = <<>>
    /\ registry_tools = EmptyMap
    /\ registry_op = NoOp
    /\ email = NoEmail
    /\ session = NoSession

\* runs[r] after one more piece of run r.
ConcUpdate(r, p, iter, msgs, stps, rec, res) ==
    /\ runs' = [runs EXCEPT ![r] =
                   [pc |-> p, iteration |-> iter, messages |-> msgs,
                    steps |-> IF engine = "conv" THEN stps ELSE <<>>,
                    recorded |-> rec, result |-> res]]
    /\ SetTrace(r, stps)
    /\ UNCHANGED engineVars
    /\ UNCHANGED toolVars

\* Run r goes round the while loop after trace stps: the next gateway
\* call, or the return after the loop.
ConcLoop(r, msgs, stps, rec) ==
    IF runs[r].iteration < max_iterations
    THEN ConcUpdate(r, "LLM", runs[r].iteration + 1, msgs, stps, rec, NoResult)
    ELSE ConcUpdate(r, "DONE", runs[r].iteration, msgs, stps, rec,
                    Returned(MaxIterResult(stps, runs[r].iteration)))

\* run() of run r starts, up to the first `await self._call_llm`
\* (agent_core.py 219-244 with `self.steps = []`, conversational_agent.py
\* 219-275 with the local `steps = []`).
ConcStartRun(r) ==
    /\ runs[r].pc = "START"
    /\ 0 < max_iterations
    /\ ConcUpdate(r, "LLM", 1, InitialMessages("system prompt", <<>>, Query(r)),
                  <<>>, <<>>, NoResult)

\* The gateway call of run r returns one calculator request, up to
\* `await self._execute_tool` (agent_core.py 245-281,
\* conversational_agent.py 276-326, where the step is recorded first).
ConcToolCall(r) ==
    /\ runs[r].pc = "LLM"
    /\ LET step == ConvStep(runs[r].iteration, "calculator",
                            MapArgs([expression |-> Expr(r)]))
       IN  IF engine = "conv"
           THEN ConcUpdate(r, "TOOL", runs[r].iteration,
                           Append(runs[r].messages, ConcAssistant(r)),
                           Append(Trace(r), step),
                           Append(runs[r].recorded, step), NoResult)
           ELSE ConcUpdate(r, "TOOL", runs[r].iteration, runs[r].messages,
                           Trace(r), runs[r].recorded, NoResult)

\* _execute_tool of run r returns, up to the next await or the return
\* (agent_core.py 281-301, conversational_agent.py 326-340).
ConcToolReturns(r) ==
    /\ runs[r].pc = "TOOL"
    /\ LET out == ToolRun("calculator", [expression |-> Expr(r)]).value
           obs == IF engine = "react" THEN ReactObservation(out).value
                  ELSE ConvObservation(out).value
           turn == [role |-> "tool",
                    tool_call_id |-> ConcId(r, runs[r].iteration), content |-> obs]
           step == AgentStep("calculator", MapArgs([expression |-> Expr(r)]), obs)
       IN  IF engine = "react"
           THEN ConcLoop(r, runs[r].messages \o <<ConcAssistant(r), turn>>,
                         Append(Trace(r), step), Append(runs[r].recorded, step))
           ELSE ConcLoop(r, Append(runs[r].messages, turn),
                         SetLastObservation(Trace(r), obs),
                         SetLastObservation(runs[r].recorded, obs))

\* The gateway call of run r returns a finish request: the finish step and
\* the return (agent_core.py 258-278, conversational_agent.py 296-323).
ConcFinish(r) ==
    /\ runs[r].pc = "LLM"
    /\ LET answer == "answer " \o ToString(r)
           step == IF engine = "react"
                   THEN AgentStep("finish", MapArgs([answer |-> answer]), NoneVal)
                   ELSE ConvStep(runs[r].iteration, "finish",
                                 MapArgs([answer |-> answer]))
           stps == Append(Trace(r), step)
       IN  ConcUpdate(r, "DONE", runs[r].iteration,
                      IF engine = "conv"
                      THEN Append(runs[r].messages,
                                  [role |-> "assistant", content |-> NoneVal,
                                   tool_calls |->
                                     <<[id |-> ConcId(r, runs[r].iteration),
                                        function |->
                                          [name |-> "finish",
                                           arguments |-> MapArgs([answer |-> answer])]]>>])
                      ELSE runs[r].messages,
                      stps, Append(runs[r].recorded, step),
                      Returned(SuccessResult(answer, stps, runs[r].iteration)))

\* The gateway call of run r returns a direct answer (agent_core.py
\* 303-316, conversational_agent.py 344-363).
ConcDirectAnswer(r) ==
    /\ runs[r].pc = "LLM"
    /\ ConcUpdate(r, "DONE", runs[r].iteration, runs[r].messages, Trace(r),
                  runs[r].recorded,
                  Returned(SuccessResult("hello", Trace(r), runs[r].iteration)))

NextConc ==
    \/ \E r \in Runs : ConcStartRun(r)
    \/ \E r \in Runs : ConcToolCall(r)
    \/ \E r \in Runs : ConcToolReturns(r)
    \/ \E r \in Runs : ConcFinish(r)
    \/ \E r \in Runs : ConcDirectAnswer(r)

SpecConc == InitConc /\ [][NextConc]_vars

(***************************************************************************)
(* Properties                                                              *)
(***************************************************************************)

\* The assistant turns with invocation requests in the message list.
AssistantTurns ==
    {i \in 1..Len(messages) :
        messages[i].role = "assistant" /\ "tool_calls" \in DOMAIN messages[i]}

\* The turns that follow assistant turn i, up to the next assistant turn.
SegmentEnd(i) ==
    IF \E j \in AssistantTurns : j > i
    THEN (CHOOSE j \in AssistantTurns :
             j > i /\ \A h \in AssistantTurns : h > i => j <= h) - 1
    ELSE Len(messages)

ToolResults(i) == SubSeq(messages, i + 1, SegmentEnd(i))

\* The model call that follows assistant turn i has started or is next.
Closed(i) == (\E j \in AssistantTurns : j > i) \/ pc \in {"THINKING", "LLM"}

\* Request k of calls comes after a finish request of the same turn.
Superseded(calls, k) == \E d \in 1..(k - 1) : calls[d].function.name = "finish"

\* The tool-result turns among res that carry the id of request k.
AnswersTo(res, calls, k) ==
    {j \in 1..Len(res) : res[j].role = "tool" /\ res[j].tool_call_id = calls[k].id}

\* C1: in ConversationalAgent.run, once the model call that follows an
\* assistant turn with requests is due, every request of that turn not
\* superseded by an earlier finish has exactly one tool-result turn with
\* its id, and the tool-result turns after the assistant turn are as many
\* as those requests.
C1_ConvEveryRequestAnswered ==
    engine = "conv" =>
        \A i \in AssistantTurns :
            Closed(i) =>
                LET calls == messages[i].tool_calls
                    res == ToolResults(i)
                    live == {k \in 1..Len(calls) : ~Superseded(calls, k)}
                IN  /\ \A k \in live : Cardinality(AnswersTo(res, calls, k)) = 1
                    /\ \A j \in 1..Len(res) : res[j].role = "tool"
                    /\ Len(res) = Cardinality(live)

\* A second model call of ConversationalAgent.run is under way after a
\* turn of two requests, both answered.
C1_Witness ==
    /\ engine = "conv"
    /\ pc = "LLM"
    /\ \E i \in AssistantTurns :
          /\ Len(messages[i].tool_calls) = 2
          /\ Len(ToolResults(i)) = 2

\* C2: in ReactAgent.run, once the model call that follows an assistant
\* turn is due, every request of that turn (none of them finish) has
\* exactly one tool-result turn with its id.
C2_ReactEveryRequestAnswered ==
    engine = "react" =>
        \A i \in AssistantTurns :
            LET calls == messages[i].tool_calls
            IN  (/\ Closed(i)
                 /\ \A k \in 1..Len(calls) : calls[k].function.name # "finish")
                => \A k \in 1..Len(calls) :
                      Cardinality(AnswersTo(ToolResults(i), calls, k)) = 1

\* The arguments recorded in a trace step.
StepInput(step) == IF engine = "react" THEN step.action_input ELSE step.input

\* The trace steps of a processed finish request: its arguments were a
\* JSON object.
FinishSteps ==
    {i \in 1..Len(steps) :
        steps[i].action = "finish" /\ StepInput(steps[i]).kind = "map"}

\* The ids on the tool-result turns of the message list.
AnsweredIds ==
    {messages[j].tool_call_id : j \in {h \in 1..Len(messages) : messages[h].role = "tool"}}

Range(seq) == {seq[i] : i \in 1..Len(seq)}

\* C3: once a finish request has been processed, in either engine, the
\* run is ANSWERED with success = true and the answer argument of that
\* request (the empty text when it has none); the finish step is the last
\* trace entry, no request after it in the same assistant turn has a trace
\* entry, a tool-result turn or an invocation, and no model call follows.
C3_FirstFinishWins ==
    \A i \in FinishSteps :
        LET calls == assistant_message.tool_calls
            p == CHOOSE k \in 1..Len(calls) : calls[k].id = step_ids[i]
        IN  /\ pc = "ANSWERED"
            /\ i = Len(steps)
            /\ calls[p].function.name = "finish"
            /\ result.success = TRUE
            /\ result.answer = DictGet(calls[p].function.arguments.m, "answer", "")
            /\ result.steps = steps
            /\ result.iterations = llm_calls
            /\ \A k \in (p + 1)..Len(calls) :
                  /\ calls[k].id \notin Range(step_ids)
                  /\ calls[k].id \notin AnsweredIds
                  /\ calls[k].id \notin {invoked[j].id : j \in 1..Len(invoked)}

\* A finish request was processed and a calculator request follows it in
\* the same assistant turn.
C3_Witness ==
    /\ pc = "ANSWERED"
    /\ FinishSteps # {}
    /\ LET calls == assistant_message.tool_calls
       IN  \E k \in 2..Len(calls) :
              /\ calls[k - 1].id = step_ids[Len(step_ids)]
              /\ calls[k].function.name = "calculator"

\* C4: in every terminal state of either engine the reported iterations
\* value is at most the configured max_iterations.
C4_IterationsWithinMax ==
    pc \in Terminal => result.iterations <= max_iterations

\* Every response of the gateway so far carried requests, none of them
\* finish, each with arguments that parse to a JSON object.
AlwaysRequestsCapability ==
    \A i \in 1..Len(responses) :
        /\ responses[i].kind = "tool_calls"
        /\ \A k \in 1..Len(responses[i].tool_calls) :
              /\ responses[i].tool_calls[k].function.name # "finish"
              /\ responses[i].tool_calls[k].function.arguments.kind = "map"

\* C5: with max_iterations = N >= 1 and a gateway that requests a
\* non-finish capability on every call, the run ends in MAX_ITER with
\* iterations = N, success = false and the fixed answer text.
C5_BoundExhaustion ==
    (max_iterations >= 1 /\ pc \in Terminal /\ AlwaysRequestsCapability)
    => /\ pc = "MAX_ITER"
       /\ result.iterations = max_iterations
       /\ result.success = FALSE
       /\ result.answer = "sorry, no answer within the allowed steps"

\* The last response of the gateway was a direct answer.
DirectAnswered ==
    responses # <<>> /\ responses[Len(responses)].kind = "direct"

\* C6: a response without invocation requests ends the run in ANSWERED
\* with success = true and the content of that response as the answer,
\* and the step that takes it invokes no capability and records nothing;
\* on the first model call the result has iterations = 1 and no trace.
C6_DirectAnswer ==
    /\ [](DirectAnswered =>
            /\ pc = "ANSWERED"
            /\ result.success = TRUE
            /\ result.answer = responses[Len(responses)].content
            /\ result.steps = steps
            /\ result.iterations = llm_calls
            /\ (Len(responses) = 1 =>
                   /\ result.iterations = 1
                   /\ result.steps = <<>>
                   /\ invoked = <<>>))
    /\ [][(~DirectAnswered /\ DirectAnswered') =>
             /\ invoked' = invoked
             /\ steps' = steps
             /\ messages' = messages]_vars

\* The first model call answered directly.
C6_Witness ==
    /\ DirectAnswered
    /\ Len(responses) = 1
    /\ pc = "ANSWERED"

\* A response with exactly one request, for a registered capability, with
\* arguments that parse to a JSON object.
RegisteredCall(r) ==
    /\ r.kind = "tool_calls"
    /\ Len(r.tool_calls) = 1
    /\ r.tool_calls[1].function.name \in DOMAIN tools
    /\ r.tool_calls[1].function.arguments.kind = "map"

\* A response with exactly one request, finish(answer = a).
FinishCall(r) ==
    /\ r.kind = "tool_calls"
    /\ Len(r.tool_calls) = 1
    /\ r.tool_calls[1].function.name = "finish"
    /\ r.tool_calls[1].function.arguments.kind = "map"
    /\ "answer" \in DOMAIN r.tool_calls[1].function.arguments.m

\* The trace steps that are not finish steps.
ToolSteps == {i \in 1..Len(steps) : steps[i].action # "finish"}

\* C7: when the gateway requests one registered capability on each of its
\* first k calls and finish(answer = a) on call k + 1 <= max_iterations,
\* the run ends only through that finish, with success = true, answer = a,
\* iterations = k + 1 and one trace step per capability request, in order.
C7_ToolsThenFinish ==
    (/\ pc \in Terminal
     /\ responses # <<>>
     /\ \A i \in 1..(Len(responses) - 1) : RegisteredCall(responses[i])
     /\ \/ /\ FinishCall(responses[Len(responses)])
           /\ Len(responses) <= max_iterations
        \/ /\ RegisteredCall(responses[Len(responses)])
           /\ Len(responses) + 1 <= max_iterations)
    => /\ FinishCall(responses[Len(responses)])
       /\ pc = "ANSWERED"
       /\ result.success = TRUE
       /\ result.answer =
             responses[Len(responses)].tool_calls[1].function.arguments.m["answer"]
       /\ result.iterations = Len(responses)
       /\ Cardinality(ToolSteps) = Len(responses) - 1
       /\ \A i \in ToolSteps :
             /\ step_ids[i] = responses[i].tool_calls[1].id
             /\ result.steps[i].action = responses[i].tool_calls[1].function.name

\* C8: a capability invocation that was started never takes the run to
\* ERROR: the engine appends the tool-result turn of that request and goes
\* on with the turn or with the next iteration.
C8_CapabilityFaultsLocal ==
    [][pc = "TOOL" =>
          /\ pc' \in {"ACTING", "THINKING"}
          /\ messages'[Len(messages')].role = "tool"
          /\ messages'[Len(messages')].tool_call_id = invoked[Len(invoked)].id]_vars

\* C9: Tool.run gives its caller a ToolOutput and never an exception, and
\* when an exception was raised by the validation or by _execute that
\* ToolOutput has success = false and a non-empty error text.
C9_RunNeverRaises ==
    t_pc = "RETURNED" =>
        /\ ~t_out.raised
        /\ (t_fault => (t_out.value.success = FALSE /\ t_out.value.error # ""))

\* run returned after the body of _execute raised.
C9_Witness ==
    /\ t_pc = "RETURNED"
    /\ t_fault
    /\ t_entered = 1
    /\ t_body.raised

\* A name listed under `required` is absent from the arguments.
MissingRequired ==
    \E i \in 1..Len(t_tool.required) : t_tool.required[i] \notin DOMAIN t_kwargs

\* C10 as stated: with a required name absent run returns a failure-tagged
\* ToolOutput and the body of _execute is never entered; with all required
\* names present the body is entered exactly once.
C10_BodyEnteredOnce ==
    t_pc = "RETURNED" =>
        IF MissingRequired
        THEN /\ ~t_out.raised
             /\ t_out.value.success = FALSE
             /\ t_entered = 0
        ELSE t_entered = 1

\* C10 amended: with a required name absent run returns a failure-tagged
\* ToolOutput and _execute is neither called nor entered; with all
\* required names present run calls _execute exactly once, and its body is
\* entered exactly once when every argument name is a parameter of
\* _execute, and otherwise not at all, run returning a failure-tagged
\* ToolOutput.
C10_ValidationGatesExecute ==
    t_pc = "RETURNED" =>
        IF MissingRequired
        THEN /\ ~t_out.raised
             /\ t_out.value.success = FALSE
             /\ t_called = 0
             /\ t_entered = 0
        ELSE /\ t_called = 1
             /\ IF DOMAIN t_kwargs \subseteq t_tool.accepts
                THEN t_entered = 1
                ELSE /\ t_entered = 0
                     /\ ~t_out.raised
                     /\ t_out.value.success = FALSE

\* run returned a failure for a call that lacks a required name.
C10_Witness ==
    /\ t_pc = "RETURNED"
    /\ MissingRequired
    /\ t_out.value.success = FALSE
    /\ t_called = 0

\* The request run() is at: tool_calls[0] in ReactAgent, the request of
\* the for loop in ConversationalAgent.
CurrentToolCall == IF engine = "react" THEN ReactToolCall ELSE ConvToolCall

\* run() is about to process a request whose arguments parse and whose
\* name is neither finish nor in the capability table.
LookupMissNext ==
    /\ pc = "ACTING"
    /\ CurrentToolCall.function.name \notin (DOMAIN tools \cup {"finish"})
    /\ ~JsonLoads(CurrentToolCall.function.arguments).raised

\* C11: a request for a name that is not in the capability table (and is
\* not finish) does not end the run: the engine appends a tool-result turn
\* with the id of the request and a JSON observation tagged success =
\* false, records one trace step with that observation, invokes nothing,
\* and goes on with the turn or the next iteration.
C11_LookupMiss ==
    [][LookupMissNext =>
          /\ pc' \in {"ACTING", "THINKING"}
          /\ invoked' = invoked
          /\ Len(steps') = Len(steps) + 1
          /\ LET turn == messages'[Len(messages')]
                 step == steps'[Len(steps')]
             IN  /\ turn.role = "tool"
                 /\ turn.tool_call_id = CurrentToolCall.id
                 /\ turn.content.format = "json"
                 /\ turn.content.value.success = FALSE
                 /\ step.action = CurrentToolCall.function.name
                 /\ step.observation = turn.content]_vars

\* The last gateway call raised.
GatewayFaulted ==
    responses # <<>> /\ responses[Len(responses)].kind = "fault"

\* C12: a gateway call that fails takes the run to ERROR with success =
\* false and the message of the exception in `error`; the step that takes
\* it records nothing and invokes nothing, the result carries the trace
\* recorded before the fault, every gateway call made has one response
\* (the failed call is not made again), and afterwards no gateway call
\* and no capability invocation happens.
C12_GatewayFault ==
    /\ [](GatewayFaulted =>
            /\ pc = "ERROR"
            /\ result.success = FALSE
            /\ result.error = responses[Len(responses)].content
            /\ result.steps = steps
            /\ result.iterations = llm_calls
            /\ llm_calls = Len(responses))
    /\ [][(~GatewayFaulted /\ GatewayFaulted') =>
             /\ steps' = steps
             /\ invoked' = invoked
             /\ messages' = messages]_vars
    /\ [][GatewayFaulted =>
             /\ llm_calls' = llm_calls
             /\ invoked' = invoked
             /\ attempted' = attempted
             /\ result' = result]_vars

\* The second gateway call failed after a capability was invoked.
C12_Witness ==
    /\ GatewayFaulted
    /\ pc = "ERROR"
    /\ Len(responses) = 2
    /\ Len(invoked) = 1
    /\ Len(result.steps) = 1

\* The result a terminal state carries is of the kind of that state.
ResultMatches ==
    /\ "success" \in DOMAIN result
    /\ pc = "ANSWERED" => (result.success = TRUE /\ "error" \notin DOMAIN result)
    /\ pc = "MAX_ITER" => /\ result.success = FALSE
                          /\ result.error = "maximum iterations reached"
    /\ pc = "ERROR" => /\ result.success = FALSE
                       /\ "error" \in DOMAIN result
                       /\ result.answer = "error during run: " \o result.error

\* C13: every run of either engine eventually returns, in ANSWERED,
\* MAX_ITER or ERROR, with the result of that outcome; before that it has
\* returned nothing, it stops nowhere else, and once returned neither the
\* outcome nor the result changes.
C13_Terminates ==
    /\ <>(pc \in Terminal)
    /\ [](pc \in Terminal => ResultMatches)
    /\ [](pc \notin Terminal => result = NoResult)
    /\ [][(pc \in Terminal) => (pc' = pc /\ result' = result)]_vars

\* A run returned MAX_ITER after a turn of two requests was executed.
C13_Witness ==
    /\ pc = "MAX_ITER"
    /\ result.iterations = 2
    /\ Len(invoked) >= 2

\* The ids of the requests the gateway issued to run r.
ConcIds(r) == {ConcId(r, i) : i \in 1..max_iterations}

\* Turn m is one that run r produced.
OwnTurn(r, m) ==
    CASE m.role = "system" -> TRUE
      [] m.role = "user" -> m.content = Query(r)
      [] m.role = "tool" -> m.tool_call_id \in ConcIds(r)
      [] OTHER -> \A k \in 1..Len(m.tool_calls) : m.tool_calls[k].id \in ConcIds(r)

\* C14: for concurrent runs on one engine instance, in any interleaving,
\* the message list of a run holds only turns of that run, its trace is
\* at every moment the sequence of steps that run recorded, and the trace
\* a run returns is the sequence of steps that run recorded.
C14_RunsIsolated ==
    \A r \in Runs :
        /\ \A k \in 1..Len(runs[r].messages) : OwnTurn(r, runs[r].messages[k])
        /\ runs[r].pc \in {"LLM", "TOOL"} => Trace(r) = runs[r].recorded
        /\ runs[r].pc = "DONE" => runs[r].result.steps = runs[r].recorded

\* The last assistant turn with requests in the message list.
LastAssistantTurn == CHOOSE i \in AssistantTurns : \A j \in AssistantTurns : j <= i

\* C15: in ConversationalAgent.run the tool-result turns that follow an
\* assistant turn answer its requests in the order of the requests, one
\* for each request from the first on; while an invocation runs it is the
\* invocation of the request after the last one answered, every earlier
\* invocation of the run has its tool-result turn already, and the
\* invocations started in the order of the requests.
C15_SequentialInOrder ==
    engine = "conv" =>
        /\ \A i \in AssistantTurns :
              LET calls == messages[i].tool_calls
                  res == ToolResults(i)
              IN  /\ Len(res) <= Len(calls)
                  /\ \A j \in 1..Len(res) :
                        res[j].role = "tool" /\ res[j].tool_call_id = calls[j].id
        /\ pc = "TOOL" =>
              LET calls == messages[LastAssistantTurn].tool_calls
                  res == ToolResults(LastAssistantTurn)
              IN  /\ invoked[Len(invoked)].id = calls[Len(res) + 1].id
                  /\ \A j \in 1..(Len(invoked) - 1) : invoked[j].id \in AnsweredIds
        /\ \A a, b \in 1..Len(invoked) : a < b => invoked[a].id < invoked[b].id

\* The invocation of the third request of a turn runs; the first two
\* requests have their tool-result turns.
C15_Witness ==
    /\ engine = "conv"
    /\ pc = "TOOL"
    /\ idx = 3
    /\ Len(ToolResults(LastAssistantTurn)) = 2
    /\ Len(invoked) = 3

\* The ids of the requests recorded by the first n trace steps that are
\* not finish steps, in the order of the trace.
RECURSIVE TracedIds(_)
TracedIds(n) ==
    IF n = 0 THEN <<>>
    ELSE IF steps[n].action = "finish" THEN TracedIds(n - 1)
    ELSE Append(TracedIds(n - 1), step_ids[n])

\* C16: whenever no invocation is running, in either engine, the trace
\* steps that are not finish steps are, in order, the capability
\* invocations attempted so far in the run, one step for each, and a
\* result returned carries that trace.
C16_TraceMatchesInvocations ==
    pc # "TOOL" =>
        /\ TracedIds(Len(steps)) = attempted
        /\ pc \in Terminal => result.steps = steps

\* run() is about to process a request whose arguments are not JSON.
MalformedNext ==
    /\ pc = "ACTING"
    /\ CurrentToolCall.function.arguments.kind = "badjson"

\* C17: when run() comes to a request whose arguments cannot be parsed,
\* in either engine, the run goes to ERROR with success = false and the
\* message of the parse error in `error`; that step invokes nothing and
\* records neither a step nor a turn, and afterwards no request is
\* executed and no gateway call is made.
C17_MalformedArgumentsAbort ==
    /\ [][MalformedNext =>
             /\ pc' = "ERROR"
             /\ result'.success = FALSE
             /\ result'.error = "Expecting value: line 1 column 1 (char 0)"
             /\ result'.steps = steps
             /\ steps' = steps
             /\ messages' = messages
             /\ invoked' = invoked
             /\ attempted' = attempted]_vars
    /\ [][(pc = "ERROR") =>
             /\ pc' = "ERROR"
             /\ llm_calls' = llm_calls
             /\ invoked' = invoked
             /\ attempted' = attempted
             /\ messages' = messages]_vars

\* ConversationalAgent.run ended in ERROR on the second request of a turn
\* of three, after the first request was executed.
C17_Witness ==
    /\ engine = "conv"
    /\ pc = "ERROR"
    /\ result.error = "Expecting value: line 1 column 1 (char 0)"
    /\ Len(assistant_message.tool_calls) = 3
    /\ idx = 2
    /\ Len(invoked) = 1
    /\ Len(steps) = 1

\* The retrieval of this run raised.
RetrievalFailed == rag_calls # <<>> /\ rag_calls[1].outcome.raised

\* C18: when the retrieval asked for raises, ConversationalAgent.run goes
\* on: the system turn is the prompt without retrieved context, the
\* source documents are empty, in the run and in every result, no result
\* carries the error of the retrieval, and the run is ANSWERED with
\* success = true once the gateway answers directly or a finish request
\* is processed.
C18_RetrievalFaultDegrades ==
    RetrievalFailed =>
        /\ pc # "START"
        /\ messages[1] = [role |-> "system", content |-> "system prompt"]
        /\ source_documents = <<>>
        /\ pc \in Terminal =>
              /\ result.source_documents = <<>>
              /\ result.rag_enabled = TRUE
              /\ result.rag_kb_name = kb_name
        /\ pc = "ERROR" => result.error # rag_calls[1].outcome.exc
        /\ (DirectAnswered \/ FinishSteps # {}) =>
              (pc = "ANSWERED" /\ result.success = TRUE)

\* The retrieval raised and the gateway then answered directly.
C18_Witness ==
    /\ RetrievalFailed
    /\ DirectAnswered
    /\ pc = "ANSWERED"
    /\ result.source_documents = <<>>

\* C19: ConversationalAgent.run queries rag_service once, before the
\* first gateway call, when enable_rag is set and a knowledge base is
\* named, and never otherwise; once a gateway call has been made no
\* further query is made and the system turn stays as it is.
C19_RetrievalOnceBeforeFirstCall ==
    /\ [](Len(rag_calls) =
             (IF pc # "START" /\ enable_rag /\ kb_name # NoneVal THEN 1 ELSE 0))
    /\ [](\A i \in 1..Len(rag_calls) : rag_calls[i].llm_calls = 0)
    /\ [][llm_calls >= 1 =>
             /\ rag_calls' = rag_calls
             /\ messages'[1] = messages[1]]_vars

\* The second gateway call of a run that retrieved context is under way.
C19_Witness ==
    /\ Len(rag_calls) = 1
    /\ ~rag_calls[1].outcome.raised
    /\ messages[1].content # "system prompt"
    /\ llm_calls = 2
    /\ pc = "LLM"

\* C20: at the first gateway call of ConversationalAgent.run the message
\* list is the system turn, then the turns of the caller's history in
\* their order and as they are, then the new user turn; and no step of the
\* run changes the caller's history.
C20_HistoryThreading ==
    /\ []((llm_calls = 1 /\ pc = "LLM") =>
            /\ Len(messages) = Len(conversation_history) + 2
            /\ messages[1].role = "system"
            /\ SubSeq(messages, 2, Len(conversation_history) + 1) = conversation_history
            /\ messages[Len(messages)] = [role |-> "user", content |-> UserMessage])
    /\ [][conversation_history' = conversation_history]_vars

\* A run with a history of two turns made a second gateway call.
C20_Witness ==
    /\ Len(conversation_history) = 2
    /\ llm_calls = 2
    /\ Len(messages) > Len(conversation_history) + 2
    /\ SubSeq(messages, 2, 3) = conversation_history

\* C21: the menu sent on every model call holds the finish schema whose
\* single required parameter is answer, and a request named finish is
\* never passed to a capability, not even when the capability table holds
\* a capability named finish.
C21_FinishOfferedNeverDispatched ==
    /\ \A i \in DOMAIN menus : FinishSchema \in menus[i]
    /\ \A i \in DOMAIN invoked : invoked[i].name # "finish"
    /\ \A k \in DOMAIN responses : \A j \in DOMAIN responses[k].tool_calls :
          responses[k].tool_calls[j].function.name = "finish"
              => responses[k].tool_calls[j].id \notin Range(attempted)

\* A run over a table with a capability named finish called the gateway
\* twice and ended on a finish request.
C21_Witness ==
    /\ "finish" \in DOMAIN tools
    /\ pc = "ANSWERED"
    /\ Len(menus) = 2
    /\ invoked # <<>>
    /\ steps # <<>>
    /\ steps[Len(steps)].action = "finish"

\* C22: registering a tool whose name is already a key of the registry
\* raises, and the registry keeps the same names, the same instances and
\* the same length.
C22_DuplicateRegistrationRejected ==
    [][(/\ registry_op'.op = "register"
        /\ registry_op'.tool.name \in DOMAIN registry_tools)
       => (/\ registry_op'.raised
           /\ registry_tools' = registry_tools
           /\ Cardinality(DOMAIN registry_tools')
                 = Cardinality(DOMAIN registry_tools))]_vars

\* A second instance of a registered name was offered and refused; the
\* first instance is still the one under that name.
C22_Witness ==
    /\ registry_op.op = "register"
    /\ registry_op.raised
    /\ registry_op.tool.name \in DOMAIN registry_tools
    /\ registry_tools[registry_op.tool.name] # registry_op.tool
    /\ Cardinality(DOMAIN registry_tools) = 2

\* C23: every tool-result turn an engine appends carries the id of the
\* request the engine is processing in that step (the request whose
\* invocation, if there was one, has just returned), and that request is
\* one of the requests of the most recent assistant turn of the list,
\* which comes before the tool-result turn.
C23_ResultCorrelation ==
    [][\A k \in (Len(messages) + 1)..Len(messages') :
          messages'[k].role = "tool" =>
              /\ pc \in {"ACTING", "TOOL"}
              /\ messages'[k].tool_call_id = CurrentToolCall.id
              /\ pc = "TOOL" => invoked[Len(invoked)].id = messages'[k].tool_call_id
              /\ AssistantTurns' # {}
              /\ LastAssistantTurn' < k
              /\ \E j \in DOMAIN messages'[LastAssistantTurn'].tool_calls :
                    messages'[LastAssistantTurn'].tool_calls[j].id
                        = messages'[k].tool_call_id]_vars

\* ConversationalAgent answered the second request of a turn, and an
\* earlier turn has its tool-result turn as well.
C23_Witness ==
    /\ engine = "conv"
    /\ Cardinality(AssistantTurns) = 2
    /\ \E i \in AssistantTurns :
          /\ Len(messages[i].tool_calls) = 2
          /\ Len(ToolResults(i)) = 2
          /\ ToolResults(i)[2].tool_call_id = messages[i].tool_calls[2].id

\* C24: a result with success = false carries a non-empty error text, or
\* its answer is one of the two fixed explanatory texts (the text of the
\* return after the loop, the text that precedes the exception message);
\* this holds for MAX_ITER, for ERROR, and for an exception whose message
\* is empty.
C24_FailedRunNeverSilent ==
    (pc \in Terminal /\ ~result.success) =>
        /\ pc \in {"MAX_ITER", "ERROR"}
        /\ "error" \in DOMAIN result
        /\ result.answer \notin {"", NoneVal}
        /\ \/ result.error \notin {"", NoneVal}
           \/ result.answer \in {"sorry, no answer within the allowed steps",
                                 "error during run: "}

\* A run ended on an exception whose message is empty.
C24_Witness ==
    /\ pc = "ERROR"
    /\ ~result.success
    /\ result.error = ""
    /\ llm_calls = 2

\* C25: the result of ConversationalAgent.run has rag_enabled true
\* exactly when rag_service.rag_query was called in the run, rag_kb_name
\* the store of that call and None otherwise, and source_documents the
\* documents that call returned, none when it returned none or raised.
C25_RetrievalReport ==
    (engine = "conv" /\ pc \in Terminal) =>
        /\ result.rag_enabled <=> (rag_calls # <<>>)
        /\ result.rag_kb_name = IF rag_calls # <<>> THEN kb_name ELSE NoneVal
        /\ result.source_documents
              = IF rag_calls # <<>> /\ ~rag_calls[1].outcome.raised
                THEN rag_calls[1].outcome.value.source_documents
                ELSE <<>>

\* C26: in every state the local iteration is the number of _call_llm
\* calls started so far, each of them has given its response or is in
\* flight, and the iterations of the result is the number of calls made.
C26_IterationCountsGatewayCalls ==
    /\ iteration = llm_calls
    /\ llm_calls = Len(responses) + (IF pc = "LLM" THEN 1 ELSE 0)
    /\ llm_calls = Len(menus)
    /\ pc \in Terminal => result.iterations = llm_calls

\* A run returned after two gateway calls and an invocation.
C26_Witness ==
    /\ pc \in Terminal
    /\ llm_calls = 2
    /\ result.iterations = 2
    /\ invoked # <<>>

C28_TableAndMenuReadOnly ==
    [][/\ tools' = tools
       /\ pc # "START" => functions' = functions
       /\ \A i, j \in DOMAIN menus' : menus'[i] = menus'[j]
       /\ \A i \in DOMAIN menus' :
             menus'[i] = {[name |-> tools[n].name, required |-> tools[n].required] :
                            n \in DOMAIN tools} \cup {FinishSchema}]_vars

\* A run over a table with a capability named finish made two model
\* calls and two invocations and ran out of iterations.
C28_Witness ==
    /\ "finish" \in DOMAIN tools
    /\ pc = "MAX_ITER"
    /\ Len(menus) = 2
    /\ Len(invoked) = 2

\* The ids of the requests of assistant turn i of message list msgs.
RequestIds(msgs, i) ==
    {msgs[i].tool_calls[j].id : j \in DOMAIN msgs[i].tool_calls}

\* C29: the message list of a run only grows at its end, and every
\* tool-result turn in it comes after an assistant turn that carries the
\* request with its id, with nothing between the two but tool-result
\* turns for requests of that same assistant turn.
C29_MessagesAppendOnly ==
    [][/\ Len(messages') >= Len(messages)
       /\ SubSeq(messages', 1, Len(messages)) = messages
       /\ \A k \in DOMAIN messages' :
             messages'[k].role = "tool" =>
                 \E i \in AssistantTurns' :
                    /\ i < k
                    /\ \A h \in (i + 1)..k :
                          /\ messages'[h].role = "tool"
                          /\ messages'[h].tool_call_id \in RequestIds(messages', i)]_vars

\* ReactAgent went twice round the loop: system turn, user turn, and two
\* pairs of assistant turn and tool-result turn.
C29_Witness ==
    /\ engine = "react"
    /\ Len(messages) = 6
    /\ Cardinality(AssistantTurns) = 2
    /\ messages[4].role = "tool"
    /\ messages[6].role = "tool"

\* C30: when each response of the gateway script carries at most one
\* request, a run of ReactAgent and a run of ConversationalAgent (empty
\* history, no retrieval) with the same capabilities and max_iterations
\* end in the same terminal state with the same success, answer and
\* iterations, and invoke the same capabilities with the same arguments in
\* the same order.
C30_EnginesAgree ==
    (/\ replay.active
     /\ replay.engine # engine
     /\ pc \in Terminal
     /\ \A k \in DOMAIN replay.script : Len(replay.script[k].tool_calls) <= 1) =>
        /\ RunSummary.state = replay.first.state
        /\ RunSummary.success = replay.first.success
        /\ RunSummary.answer = replay.first.answer
        /\ RunSummary.iterations = replay.first.iterations
        /\ RunSummary.invocations = replay.first.invocations

\* C31: with the mail configuration present, EmailSenderTool._execute
\* makes at most max_attempts passes; it returns success on the first pass
\* in which the message was sent, with metadata attempts the number of
\* that pass; it returns failure only after max_attempts passes none of
\* which sent the message (after none for max_attempts <= 0); and it
\* sleeps after every pass but the last.
C31_EmailRetry ==
    (email.pc \in {"ATTEMPT", "SLEEP", "RETURNED"} /\ email.config = "ok") =>
        /\ Len(email.log) <= (IF email.max_attempts > 0 THEN email.max_attempts ELSE 0)
        /\ \A i \in Delivered(email.log) : i = Len(email.log)
        /\ email.pc = "RETURNED" =>
              /\ email.out.success <=> (Delivered(email.log) # {})
              /\ email.out.success => email.out.metadata.attempts = Len(email.log)
              /\ ~email.out.success =>
                    Len(email.log) = (IF email.max_attempts > 0 THEN email.max_attempts
                                      ELSE 0)
              /\ email.sleeps = [i \in 1..(Len(email.log) - 1) |-> i]

\* C32: in the result of a run of either engine, success is true exactly
\* when the run ended in ANSWERED, and the result has an error field
\* exactly when success is false.
C32_SuccessStateErrorAgree ==
    pc \in Terminal =>
        /\ result.success <=> (pc = "ANSWERED")
        /\ ("error" \in DOMAIN result) <=> ~result.success

\* ConversationalAgent ended on a finish request after three trace steps,
\* with no error field in its result.
C32_Witness ==
    /\ engine = "conv"
    /\ pc = "ANSWERED"
    /\ result.success
    /\ "error" \notin DOMAIN result
    /\ Len(result.steps) = 3
    /\ llm_calls = 2

\* C33: when ConversationalAgent.run returns on a finish request that is
\* request p of its assistant turn, each of the requests 1..p-1 of the turn
\* was passed to _execute_tool, has its tool-result turn and has its trace
\* step with an observation; the finish step is the last trace step and
\* has no observation; and the trace has one step for each request
\* processed in the run, the finish request included.
C33_FinishKeepsPrecedingRequests ==
    (/\ engine = "conv"
     /\ pc = "ANSWERED"
     /\ steps # <<>>
     /\ steps[Len(steps)].action = "finish") =>
        LET calls == assistant_message.tool_calls
            n == Len(steps)
            p == CHOOSE k \in 1..Len(calls) : calls[k].id = step_ids[n]
        IN  /\ calls[p].function.name = "finish"
            /\ "observation" \notin DOMAIN steps[n]
            /\ result.steps = steps
            /\ n = Len(attempted) + 1
            /\ \A k \in 1..(p - 1) :
                  /\ calls[k].id \in Range(attempted)
                  /\ calls[k].id \in AnsweredIds
                  /\ step_ids[n - p + k] = calls[k].id
                  /\ steps[n - p + k].action = calls[k].function.name
                  /\ "observation" \in DOMAIN steps[n - p + k]

\* The finish request was the third request of its assistant turn; the
\* two requests before it were invoked.
C33_Witness ==
    /\ engine = "conv"
    /\ pc = "ANSWERED"
    /\ Len(steps) = 3
    /\ steps[3].action = "finish"
    /\ "tool_calls" \in DOMAIN assistant_message
    /\ Len(assistant_message.tool_calls) = 3
    /\ Len(invoked) = 2

\* C35: in every terminal state of either engine the answer of the
\* result is a text, possibly empty, and never None.
C35_AnswerIsText ==
    pc \in Terminal => result.answer # NoneVal

\* C34: every menu sent to the gateway holds exactly one descriptor for
\* each name of the capability table and exactly one descriptor named
\* finish, and holds no other name.
C34_MenuNamesUnique ==
    \A i \in DOMAIN menus :
        /\ \A n \in DOMAIN tools \cup {"finish"} :
              Cardinality({m \in menus[i] : m.name = n}) = 1
        /\ \A m \in menus[i] : m.name \in DOMAIN tools \cup {"finish"}

IsPrefix(s1, s2) ==
    /\ Len(s1) <= Len(s2)
    /\ \A i \in 1..Len(s1) : s1[i] = s2[i]

\* C36: agent_conversation_query reads the history of the session before
\* the run; when the run has ended, in whatever state, it appends exactly
\* the user message and then the assistant answer; no step changes or
\* removes a stored message; and in the stored history every user
\* message is directly followed by the assistant message of its request.
C36_SessionPersistence ==
    [][/\ IsPrefix(session.stored, session'.stored)
       /\ \A r \in DOMAIN session.reqs :
             /\ (session.reqs[r].pc = "NEW" /\ session'.reqs[r].pc = "RUNNING")
                   => session'.reqs[r].history = GetMessagesAsDict(session.stored)
             /\ (session.reqs[r].pc = "RUNNING" /\ session'.reqs[r].pc = "DONE")
                   => session'.stored = session.stored \o
                        <<[role |-> "user", content |-> RequestMessage(r), req |-> r],
                          [role |-> "assistant", content |-> session'.reqs[r].answer,
                           req |-> r]>>
       /\ \A i \in 1..Len(session'.stored) :
             session'.stored[i].role = "user"
                => /\ i < Len(session'.stored)
                   /\ session'.stored[i + 1].role = "assistant"
                   /\ session'.stored[i + 1].req = session'.stored[i].req]_vars

====
